---- MODULE Spec2Model ----
(***************************************************************************)
(* Playmaker: the three pipelines (docs-check, plan, generate) as state    *)
(* machines, one run of one pipeline per behaviour.                        *)
(*                                                                         *)
(*   docs-check  src/src/docs-checker.ts   checkDocs                       *)
(*   plan        src/src/planner.ts        createTestPlan (lines 104-319;  *)
(*               lines 1-103 of that file are the earlier targetUrl        *)
(*               variant, which meters nothing and sets no budget)         *)
(*   generate    src/src/generator.ts      generateTest                    *)
(*   planUrl, planUrlAgent   the target-URL variants of the plan script:   *)
(*               planner.ts 1-103 and src/unnamed/part_000                 *)
(*   the shims   src/bin/*.js, which spawn a script and pass on its exit   *)
(*                                                                         *)
(* Conventions.                                                            *)
(*  - An optional value (null / undefined in the source) is a sequence of  *)
(*    length 0 or 1: <<>> is absent, <<v>> is present.                     *)
(*  - An environment variable is a string; Undefined stands for an unset   *)
(*    variable. JavaScript's truthiness is the operator Truthy.            *)
(*  - Money is an integer count of 1e-7 dollars, so that the three rates   *)
(*    of planner.ts (0.00003, 0.00015, 0.0000075) are the integers 300,    *)
(*    1500 and 75. The source adds IEEE doubles; rounding is not modelled. *)
(*  - out holds the outcome-bearing console lines (errors, the budget      *)
(*    message, the created / total-cost reports, displayed agent text);    *)
(*    progress chatter is left out.                                        *)
(*  - calls is the log of calls that leave the process.                    *)
(*  - A local that the source never reads again is dropped (set to its     *)
(*    absent value) when the run passes the last line that reads it.       *)
(***************************************************************************)
EXTENDS Integers, Sequences, FiniteSets, TLC

VARIABLES
    shim,                 \* the CLI entry shim that started the script, if one did
    child,                \* the process the shim spawned: npx tsx <script>
    workflow,             \* "docs" | "plan" | "generate" | "planUrl" | "planUrlAgent"
    env,                  \* the environment variables of the process
    pc,                   \* position of the run in its script
    exitCode,             \* the process exit code (node's default is 0)
    out,                  \* console lines written so far
    calls,                \* external calls made so far
    artifact,             \* the workflow's artifact on disk: "absent" | "stale" | "fresh"
    artifactKind,         \* what the fresh artifact holds: "" | "noUpdates" | "agent"
    agentsFiles,          \* persona definition files present under .claude/agents
    planFiles,            \* generate: <<>> no specs/ directory, else <<list of file names>>
    docsBotConfig,        \* docs: <<>> or <<[apiKey, teamId, botId]>>
    event,                \* getPRInfo: <<>> or <<the parsed payload>>
    diff,                 \* getPRInfo: the local diff, the raw text of git diff
    numstat,              \* getPRInfo: <<>> or <<the lines git diff --numstat printed>>
    prInfo,               \* <<>> (null) or <<PRInfo>>
    responseText,         \* filterRelevantChanges: <<>> or <<reply tokens>>
    filtered,             \* docs: <<>> or <<FilteredChanges>>
    response,             \* queryDocsBot: <<>> or <<the HTTP response>>
    docsBotResponse,      \* docs: <<>> or <<DocsBotResponse>>
    changeSummary,        \* plan: <<>> (null) or <<summary>>
    testPlan,             \* generate: <<>> (null) or <<plan file name read>>
    options,              \* <<>> or <<the options the session was opened with>>
    session,              \* "none" | "Streaming" | "Completed" | "BudgetExceeded" | "Failed"
    consumed,             \* the events the consuming loop has taken from the stream
    totalCost,            \* the running total
    processedMessageIds   \* the seen step identifiers

vars == <<shim, child, workflow, env, pc, exitCode, out, calls, artifact, artifactKind, agentsFiles,
          planFiles, docsBotConfig, event, diff, numstat, prInfo, responseText, filtered,
          response, docsBotResponse, changeSummary, testPlan, options, session, consumed,
          totalCost, processedMessageIds>>

(***************************************************************************)
(* Bounds of the model.                                                    *)
(***************************************************************************)
\* longest event stream a session delivers
MaxEvents == 3
\* longest classification reply, in tokens
MaxReply == 3

(***************************************************************************)
(* JavaScript values.                                                      *)
(***************************************************************************)
Undefined == "<undefined>"
Null == "<null>"

\* !!v for the string-valued things the scripts test (env vars, ids, bodies,
\* JSON values written as their text)
Truthy(v) == v \notin {Undefined, Null, "", "false", "0"}

\* an unset, an empty and a set environment variable
EnvValues == {Undefined, "", "set"}
\* the values of PLAYMAKER_MAX_BUDGET, each the sequence of its characters in
\* <<>> (unset) or <<chars>>: unset, empty, "2.5", "abc"
BudgetValues == {<<>>, <<<<>>>>, <<<<"2", ".", "5">>>>, <<<<"a", "b", "c">>>>}

\* every combination of values of the variables a script reads
AllEnvs(script) ==
    [DOCSBOT_API_KEY : IF script = "docs" THEN EnvValues ELSE {Undefined},
     DOCSBOT_TEAM_ID : IF script = "docs" THEN EnvValues ELSE {Undefined},
     DOCSBOT_BOT_ID : IF script = "docs" THEN EnvValues ELSE {Undefined},
     PLAYMAKER_MOCK : IF script \in {"docs", "plan"} THEN EnvValues ELSE {Undefined},
     GITHUB_EVENT_PATH : IF script \in {"docs", "plan"} THEN EnvValues ELSE {Undefined},
     PLAYMAKER_MAX_BUDGET : BudgetValues]

\* the environments of a run: the budget override varies in the environment of
\* a local run (mock mode on, credentials set, no event path), the other
\* variables vary without it
Envs(script) ==
    {e \in AllEnvs(script) :
        \/ e.PLAYMAKER_MAX_BUDGET = <<>>
        \/ /\ script \notin {"docs", "plan"} \/ e.PLAYMAKER_MOCK = "set"
           /\ e.GITHUB_EVENT_PATH = Undefined
           /\ script = "docs" =>
                 /\ e.DOCSBOT_API_KEY = "set" /\ e.DOCSBOT_TEAM_ID = "set"
                 /\ e.DOCSBOT_BOT_ID = "set"}

Some(v) == <<v>>
None == <<>>
IsSome(o) == o # <<>>
The(o) == o[1]

\* a console line: the stream it goes to, its text, and up to two numbers
Line(stream, msg, a, b) == [stream |-> stream, msg |-> msg, a |-> a, b |-> b]
Log(msg) == Line("log", msg, 0, 0)
Err(msg) == Line("error", msg, 0, 0)

(***************************************************************************)
(* The rate table (planner.ts 286-288), in 1e-7 dollars per token.         *)
(***************************************************************************)
P_in == 300
P_out == 1500
P_cache == 75

(***************************************************************************)
(* The events of a session's stream (the SDK's messages), as the consuming *)
(* loops read them: type, message.id, message.usage, the first text block  *)
(* of message.content, a Task tool_use block's subagent_type, cost, and    *)
(* error.type.                                                             *)
(***************************************************************************)
Usage(i, o, c) == [input_tokens |-> i, output_tokens |-> o, cache_read_input_tokens |-> c]

Message(type, hasMessage, id, usage, text, task, cost, errorType) ==
    [type |-> type, hasMessage |-> hasMessage, id |-> id, usage |-> usage,
     text |-> text, task |-> task, cost |-> cost, errorType |-> errorType]

Assistant(id, usage, text, task) ==
    Message("assistant", TRUE, id, usage, text, task, None, "")
SystemMessage(cost) == Message("system", FALSE, "", None, None, None, cost, "")
ErrorMessage(errorType) == Message("error", FALSE, "", None, None, None, None, errorType)
ResultMessage == Message("result", FALSE, "", None, None, None, None, "")

\* usage records; a token count may be missing from one
Usages == {Usage(Some(1), Some(1), None), Usage(Some(2), None, Some(4))}

\* what the plan session may deliver ("" stands for a missing or empty id): the
\* same id with no usage and with two different usages, a second id, a missing
\* id, a message without text, the budget stop, another error, a system and a
\* result message
PlanEvents ==
    {Assistant("msg_1", u, Some("text"), None) : u \in {None} \cup {Some(x) : x \in Usages}}
    \cup {Assistant("msg_2", Some(Usage(Some(1), Some(1), None)), Some("text"), None),
          Assistant("", Some(Usage(Some(2), None, Some(4))), Some("text"), None),
          Assistant("msg_1", Some(Usage(Some(1), Some(1), None)), None, None),
          ErrorMessage("budget_exceeded"), ErrorMessage("overloaded"),
          SystemMessage(Some(1000)), ResultMessage}

\* what the generate session may deliver
GenerateEvents ==
    {SystemMessage(Some(1000)), SystemMessage(Some(2500)), SystemMessage(None),
     ErrorMessage("budget_exceeded"), ErrorMessage("overloaded"),
     Assistant("msg_1", Some(Usage(Some(1), Some(1), None)), Some("text"), None),
     Assistant("msg_1", None, None, Some("playwright-test-generator")),
     Assistant("msg_2", None, Some("text"), Some("playwright-test-planner")),
     ResultMessage}

\* what the docs-check session may deliver
DocsEvents ==
    {Assistant("msg_1", Some(Usage(Some(1), Some(1), None)), Some("text"), None),
     Assistant("msg_1", Some(Usage(Some(2), None, Some(4))), Some("text"), None),
     Assistant("", None, Some("text"), None),
     ErrorMessage("budget_exceeded"), ResultMessage}

(***************************************************************************)
(* The consuming loop of createTestPlan (planner.ts 274-312).              *)
(***************************************************************************)
\* usage.x || 0
OrZero(o) == IF IsSome(o) THEN The(o) ELSE 0

\* planner.ts 286-289
StepCost(usage) ==
    OrZero(usage.input_tokens) * P_in
    + OrZero(usage.output_tokens) * P_out
    + OrZero(usage.cache_read_input_tokens) * P_cache

\* planner.ts 277
IsAssistant(message) == message.type = "assistant" /\ message.hasMessage

\* a mutant of IsNewUsage: no deduplication by message id
IsNewUsage_NoDedup(message, seen) ==
    /\ IsAssistant(message)
    /\ Truthy(message.id)
    /\ IsSome(message.usage)

\* a mutant of IsNewUsage: an event without an id is metered too
IsNewUsage_AnyId(message, seen) ==
    /\ IsAssistant(message)
    /\ IsSome(message.usage)
    /\ message.id \notin seen

\* planner.ts 277-282: the event is metered
IsNewUsage(message, seen) ==
    /\ IsAssistant(message)
    /\ Truthy(message.id)
    /\ IsSome(message.usage)
    /\ message.id \notin seen

\* a mutant of IsBudgetExceeded: the budget event is not recognised
IsBudgetExceeded_Never(message) == FALSE

\* planner.ts 306-308, generator.ts 110-112
IsBudgetExceeded(message) ==
    message.type = "error" /\ message.errorType = "budget_exceeded"

\* planner.ts 297-302, generator.ts 129-134, docs-checker.ts 342-348
DisplayText(message) ==
    IF IsAssistant(message) /\ IsSome(message.text)
    THEN <<Log(The(message.text))>> ELSE <<>>

\* the budget message (planner.ts 309, generator.ts 113)
BudgetLine == Err("Budget limit exceeded")

\* the earlier variants of the plan script, which take a target URL:
\* planner.ts 1-103 ("planUrl") and unnamed/part_000 ("planUrlAgent")
TargetUrlVariants == {"planUrl", "planUrlAgent"}

\* planner.ts 274-312: one turn of the loop on the next event of the stream
PlanLoopEvent ==
    /\ workflow = "plan" /\ pc = "loop"
    /\ Len(consumed) < MaxEvents
    /\ \E message \in PlanEvents :
        /\ consumed' = Append(consumed, message)
        /\ IF IsNewUsage(message, processedMessageIds)
           THEN /\ processedMessageIds' = processedMessageIds \cup {message.id}
                /\ totalCost' = totalCost + StepCost(The(message.usage))
           ELSE UNCHANGED <<processedMessageIds, totalCost>>
        /\ IF IsBudgetExceeded(message)
           THEN /\ out' = out \o DisplayText(message) \o <<BudgetLine>>
                /\ session' = "BudgetExceeded"
                /\ pc' = "afterLoop"
           ELSE /\ out' = out \o DisplayText(message)
                /\ UNCHANGED <<session, pc>>
    /\ UNCHANGED <<shim, child, workflow, options, env, exitCode, calls, artifact, artifactKind, agentsFiles,
                   planFiles, docsBotConfig, event, diff, numstat, prInfo, responseText, filtered,
                   response, docsBotResponse, changeSummary, testPlan>>

\* planner.ts 274, generator.ts 103: the stream ends, the for-await loop is left
StreamEnd ==
    /\ workflow \in {"plan", "generate"} \cup TargetUrlVariants /\ pc = "loop"
    /\ session' = "Completed"
    /\ pc' = "afterLoop"
    /\ UNCHANGED <<shim, child, workflow, options, env, exitCode, out, calls, artifact, artifactKind, agentsFiles,
                   planFiles, docsBotConfig, event, diff, numstat, prInfo, responseText, filtered,
                   response, docsBotResponse, changeSummary, testPlan, consumed, totalCost,
                   processedMessageIds>>

\* planner.ts 274, generator.ts 103: the stream raises (transport failure); the
\* error leaves the async function as a rejection
StreamThrows ==
    /\ workflow \in {"plan", "generate"} \cup TargetUrlVariants /\ pc = "loop"
    /\ session' = "Failed"
    /\ pc' = "rejected"
    /\ UNCHANGED <<shim, child, workflow, options, env, exitCode, out, calls, artifact, artifactKind, agentsFiles,
                   planFiles, docsBotConfig, event, diff, numstat, prInfo, responseText, filtered,
                   response, docsBotResponse, changeSummary, testPlan, consumed, totalCost,
                   processedMessageIds>>

\* a mutant of PlanReport: the total is reported a second time
PlanReport_Twice ==
    /\ workflow = "plan" /\ pc = "afterLoop"
    /\ out' = out \o <<Log("Test plan created in specs/ directory"),
                       Line("log", "Total cost", totalCost,
                            Cardinality(processedMessageIds)),
                       Line("log", "Total cost", totalCost,
                            Cardinality(processedMessageIds))>>
    /\ pc' = "done"
    /\ UNCHANGED <<shim, child, workflow, options, env, exitCode, calls, artifact, artifactKind,
                   agentsFiles, planFiles, docsBotConfig, event, diff, numstat, prInfo,
                   responseText, filtered, response, docsBotResponse, changeSummary,
                   testPlan, session, consumed, totalCost, processedMessageIds>>

\* planner.ts 314-315: the report after the loop; the function returns and the
\* process ends with node's default exit code
PlanReport ==
    /\ workflow = "plan" /\ pc = "afterLoop"
    /\ out' = out \o <<Log("Test plan created in specs/ directory"),
                       Line("log", "Total cost", totalCost,
                            Cardinality(processedMessageIds))>>
    /\ pc' = "done"
    /\ UNCHANGED <<shim, child, workflow, options, env, exitCode, calls, artifact, artifactKind, agentsFiles,
                   planFiles, docsBotConfig, event, diff, numstat, prInfo, responseText, filtered,
                   response, docsBotResponse, changeSummary, testPlan, session, consumed,
                   totalCost, processedMessageIds>>

\* planner.ts 318, generator.ts 142: .catch(console.error) prints the error and
\* leaves the exit code alone
CatchConsoleError ==
    /\ workflow \in {"plan", "generate"} \cup TargetUrlVariants /\ pc = "rejected"
    /\ out' = Append(out, Err("uncaught error"))
    /\ pc' = "done"
    /\ UNCHANGED <<shim, child, workflow, options, env, exitCode, calls, artifact, artifactKind, agentsFiles,
                   planFiles, docsBotConfig, event, diff, numstat, prInfo, responseText, filtered,
                   response, docsBotResponse, changeSummary, testPlan, session, consumed,
                   totalCost, processedMessageIds>>

\* the agent, told to save its result (planner.ts 247-252, generator.ts 78,
\* docs-checker.ts 318), writes the artifact at some point of the session, or never
AgentWritesArtifact ==
    /\ pc = "loop" /\ session = "Streaming"
    /\ artifact # "fresh"
    /\ artifact' = "fresh"
    /\ artifactKind' = "agent"
    /\ UNCHANGED <<shim, child, workflow, options, env, pc, exitCode, out, calls, agentsFiles, planFiles,
                   docsBotConfig, event, diff, numstat, prInfo, responseText, filtered,
                   response, docsBotResponse, changeSummary, testPlan, session, consumed,
                   totalCost, processedMessageIds>>

(***************************************************************************)
(* getPRInfo (docs-checker.ts 48-106, planner.ts 130-188: the same code).  *)
(***************************************************************************)
\* a decimal digit's value
DigitValue(c) ==
    CASE c = "0" -> 0 [] c = "1" -> 1 [] c = "2" -> 2 [] c = "3" -> 3 [] c = "4" -> 4
      [] c = "5" -> 5 [] c = "6" -> 6 [] c = "7" -> 7 [] c = "8" -> 8 [] c = "9" -> 9
      [] OTHER -> 0 - 1

RECURSIVE DigitsPrefix(_, _)
\* the value of the longest prefix of digits of chars, continuing from acc
DigitsPrefix(chars, acc) ==
    IF chars = <<>> \/ DigitValue(Head(chars)) < 0 THEN acc
    ELSE DigitsPrefix(Tail(chars), acc * 10 + DigitValue(Head(chars)))

\* a mutant of ParseIntOrZero: only the first digit is read
ParseIntOrZero_FirstDigit(chars) ==
    IF chars = <<>> \/ DigitValue(Head(chars)) < 0 THEN 0 ELSE DigitValue(Head(chars))

\* parseInt(s) || 0 on a field given as its characters: a field that does not
\* start with a digit (after an optional sign) is NaN, which || turns into 0
ParseIntOrZero(chars) ==
    LET signed == chars # <<>> /\ Head(chars) \in {"-", "+"}
        rest == IF signed THEN Tail(chars) ELSE chars
        value == DigitsPrefix(rest, 0)
    IN  IF rest = <<>> \/ DigitValue(Head(rest)) < 0 THEN 0
        ELSE IF signed /\ Head(chars) = "-" THEN 0 - value ELSE value

\* one line of the numstat output, split at the tabs (docs-checker.ts 87); a
\* count field is the sequence of its characters
NumstatLine(a, d, f) == [additions |-> a, deletions |-> d, filename |-> f]

\* the empty line: what "".split("\n") holds when git printed nothing
EmptyLine == NumstatLine(<<>>, <<>>, "")

\* docs-checker.ts 85: .filter((line) => line) keeps the non-empty lines
IsLine(line) == line # EmptyLine

\* docs-checker.ts 86-94: one line to one file entry
FileDelta(line) ==
    [filename |-> line.filename, status |-> "modified",
     additions |-> ParseIntOrZero(line.additions),
     deletions |-> ParseIntOrZero(line.deletions)]

\* docs-checker.ts 82-94: the non-empty lines, in order
ParseNumstat(lines) ==
    LET kept == SelectSeq(lines, IsLine)
    IN  [i \in 1..Len(kept) |-> FileDelta(kept[i])]

\* what git diff --numstat may print, as numstat.trim().split("\n"): nothing,
\* text files with their counts, a binary file with "-" for both counts
Numstats ==
    {<<EmptyLine>>,
     <<NumstatLine(<<"1", "2">>, <<"4">>, "src/app.ts")>>,
     <<NumstatLine(<<"1", "2">>, <<"4">>, "src/app.ts"),
       NumstatLine(<<"-">>, <<"-">>, "logo.png")>>,
     <<NumstatLine(<<"0">>, <<"1", "0", "5">>, "README.md"),
       NumstatLine(<<"7">>, <<"0">>, "src/app.ts")>>}

(***************************************************************************)
(* A text is the sequence of its runs: n UTF-16 code units of the same     *)
(* character ch, adjacent runs having different characters. "a" stands for *)
(* an ASCII character, "U+00E9" for a character of one code unit that      *)
(* takes two bytes in UTF-8.                                               *)
(***************************************************************************)
Run(ch, n) == [ch |-> ch, n |-> n]

\* docs-checker.ts 104: the cap of diff.slice(0, 50000)
DiffCap == 50000

RECURSIVE Slice(_, _)
\* text.slice(0, end): the first end code units of text
Slice(text, end) ==
    IF text = <<>> \/ end <= 0 THEN <<>>
    ELSE IF Head(text).n >= end THEN <<Run(Head(text).ch, end)>>
    ELSE <<Head(text)>> \o Slice(Tail(text), end - Head(text).n)

\* docs-checker.ts 104, planner.ts 186: diff.slice(0, 50000)
SliceDiff(text) == Slice(text, DiffCap)

\* what git diff may print: short and long, ASCII and not
Diffs ==
    {<<>>,
     <<Run("a", 40)>>,
     <<Run("a", 50000)>>,
     <<Run("a", 50001)>>,
     <<Run("a", 49999), Run("U+00E9", 2)>>,
     <<Run("U+00E9", 30000)>>}

\* the change-tracking payloads: unreadable, without pull_request, with one
PullRequest(body) == [number |-> 42, title |-> "Add search bar", body |-> body]
Payloads ==
    {[parses |-> FALSE, pull_request |-> None],
     [parses |-> TRUE, pull_request |-> None],
     [parses |-> TRUE, pull_request |-> Some(PullRequest(Null))],
     [parses |-> TRUE, pull_request |-> Some(PullRequest("Adds a search bar"))]}

\* docs-checker.ts 49-64: read GITHUB_EVENT_PATH and the payload
GetPRInfo_ReadEvent ==
    /\ workflow \in {"docs", "plan"} /\ pc = "getPRInfo"
    /\ IF ~Truthy(env.GITHUB_EVENT_PATH)
       THEN /\ prInfo' = None
            /\ pc' = "gotPRInfo"
            /\ UNCHANGED <<calls, event>>
       ELSE /\ calls' = Append(calls, "readFileSync GITHUB_EVENT_PATH")
            /\ \E payload \in Payloads :
                IF ~payload.parses
                THEN /\ pc' = "rejected"
                     /\ UNCHANGED <<prInfo, event>>
                ELSE IF ~IsSome(payload.pull_request)
                THEN /\ event' = Some(payload)
                     /\ prInfo' = None
                     /\ pc' = "gotPRInfo"
                ELSE /\ event' = Some(payload)
                     /\ pc' = "gitDiff"
                     /\ UNCHANGED prInfo
    /\ UNCHANGED <<shim, child, workflow, options, env, exitCode, out, artifact, artifactKind, agentsFiles,
                   planFiles, docsBotConfig, diff, numstat, responseText, filtered,
                   response, docsBotResponse, changeSummary, testPlan, session, consumed,
                   totalCost, processedMessageIds>>

\* docs-checker.ts 67-74: the textual diff; a failure is reported and leaves
\* diff empty
GetPRInfo_GitDiff ==
    /\ pc = "gitDiff"
    /\ calls' = Append(calls, "git diff")
    /\ \/ /\ diff' = <<>>
          /\ out' = Append(out, Log("Could not get diff via git, continuing without it."))
       \/ /\ \E text \in Diffs : diff' = text
          /\ UNCHANGED out
    /\ pc' = "gitNumstat"
    /\ UNCHANGED <<shim, child, workflow, options, env, exitCode, artifact, artifactKind, agentsFiles,
                   planFiles, docsBotConfig, event, numstat, prInfo, responseText,
                   filtered, response, docsBotResponse, changeSummary, testPlan, session,
                   consumed, totalCost, processedMessageIds>>

\* docs-checker.ts 77-97: the per-file statistics; a failure is reported and
\* leaves files empty
GetPRInfo_GitNumstat ==
    /\ pc = "gitNumstat"
    /\ calls' = Append(calls, "git diff --numstat")
    /\ \/ /\ numstat' = None
          /\ out' = Append(out, Log("Could not get file stats via git, continuing without them."))
       \/ /\ \E lines \in Numstats : numstat' = Some(lines)
          /\ UNCHANGED out
    /\ pc' = "return"
    /\ UNCHANGED <<shim, child, workflow, options, env, exitCode, artifact, artifactKind, agentsFiles,
                   planFiles, docsBotConfig, event, diff, prInfo, responseText,
                   filtered, response, docsBotResponse, changeSummary, testPlan, session,
                   consumed, totalCost, processedMessageIds>>

\* a mutant of ReturnedPRInfo: one try around both git calls, so that a failed
\* statistics call also loses the diff
ReturnedPRInfo_OneTry(pr, stat, text) ==
    [number |-> pr.number, title |-> pr.title, body |-> pr.body,
     files |-> IF IsSome(stat) THEN ParseNumstat(The(stat)) ELSE <<>>,
     diff |-> IF IsSome(stat) THEN SliceDiff(text) ELSE <<>>]

\* docs-checker.ts 77-105: files is the parsed statistics, [] when the call
\* failed, and the PRInfo is built from the payload, files and the cut diff
ReturnedPRInfo(pr, stat, text) ==
    [number |-> pr.number, title |-> pr.title, body |-> pr.body,
     files |-> IF IsSome(stat) THEN ParseNumstat(The(stat)) ELSE <<>>,
     diff |-> SliceDiff(text)]

\* docs-checker.ts 99-105: getPRInfo returns
GetPRInfo_Return ==
    /\ pc = "return"
    /\ prInfo' = Some(ReturnedPRInfo(The(The(event).pull_request), numstat, diff))
    /\ event' = None
    /\ diff' = <<>>
    /\ numstat' = None
    /\ pc' = "gotPRInfo"
    /\ UNCHANGED <<shim, child, workflow, options, env, exitCode, out, calls, artifact, artifactKind,
                   agentsFiles, planFiles, docsBotConfig, responseText, filtered,
                   response, docsBotResponse, changeSummary, testPlan, session, consumed,
                   totalCost, processedMessageIds>>

(***************************************************************************)
(* The options of a session (planner.ts 253-271, generator.ts 82-100,      *)
(* docs-checker.ts 320-338): the two ceilings. A spending ceiling is a     *)
(* number of 1e-7 dollars, NaN, or absent from the options.                *)
(***************************************************************************)
\* one dollar, in 1e-7 dollars
Dollar == 10000000

Ceiling(kind, value) == [kind |-> kind, value |-> value]

RECURSIVE CountDigits(_)
\* the length of the longest prefix of digits of chars
CountDigits(chars) ==
    IF chars = <<>> \/ DigitValue(Head(chars)) < 0 THEN 0
    ELSE 1 + CountDigits(Tail(chars))

RECURSIVE Fraction(_, _)
\* the value of the digits after the point, the first one counting scale
Fraction(chars, scale) ==
    IF chars = <<>> \/ DigitValue(Head(chars)) < 0 \/ scale = 0 THEN 0
    ELSE DigitValue(Head(chars)) * scale + Fraction(Tail(chars), scale \div 10)

\* parseFloat on an unsigned decimal text: the longest prefix digits[.digits],
\* NaN when that prefix has no digit
ParseFloat(chars) ==
    LET n == CountDigits(chars)
        rest == SubSeq(chars, n + 1, Len(chars))
        decimals == IF rest # <<>> /\ Head(rest) = "." THEN Tail(rest) ELSE <<>>
    IN  IF n = 0 /\ CountDigits(decimals) = 0 THEN Ceiling("NaN", 0)
        ELSE Ceiling("number",
                     DigitsPrefix(chars, 0) * Dollar + Fraction(decimals, Dollar \div 10))

\* planner.ts 257: parseFloat(process.env.PLAYMAKER_MAX_BUDGET || "1.0")
MaxBudgetUsd(value) ==
    IF IsSome(value) /\ The(value) # <<>> THEN ParseFloat(The(value))
    ELSE ParseFloat(<<"1", ".", "0">>)

\* the options of query(): maxTurns and maxBudgetUsd
Options(maxTurns, maxBudgetUsd) == [maxTurns |-> maxTurns, maxBudgetUsd |-> maxBudgetUsd]

(***************************************************************************)
(* plan: createTestPlan (planner.ts 216-272).                              *)
(***************************************************************************)
MockSummary == [source |-> "mock", number |-> 0, described |-> FALSE, files |-> 0,
                diff |-> FALSE]

\* planner.ts 193-210: the summary text, by what it embeds
formatPRSummary(info) ==
    [source |-> "pr", number |-> info.number, described |-> Truthy(info.body),
     files |-> Len(info.files), diff |-> info.diff # <<>>]

\* planner.ts 216-223: mock data or the pull request
GetChangeSummary ==
    /\ workflow = "plan" /\ pc = "start"
    /\ LET mock == env.PLAYMAKER_MOCK IN
        /\ UNCHANGED env
        /\ IF Truthy(mock)
           THEN /\ changeSummary' = Some(MockSummary)
                /\ pc' = "haveSummary"
           ELSE /\ pc' = "getPRInfo"
                /\ UNCHANGED changeSummary
    /\ UNCHANGED <<shim, child, workflow, options, exitCode, out, calls, artifact, artifactKind, agentsFiles,
                   planFiles, docsBotConfig, event, diff, numstat, prInfo, responseText, filtered,
                   response, docsBotResponse, testPlan, session, consumed, totalCost,
                   processedMessageIds>>

\* planner.ts 223-224: getPRInfo has returned
GetChangeSummary_Return ==
    /\ workflow = "plan" /\ pc = "gotPRInfo"
    /\ changeSummary' = IF IsSome(prInfo) THEN Some(formatPRSummary(The(prInfo)))
                        ELSE None
    /\ prInfo' = None
    /\ pc' = "haveSummary"
    /\ UNCHANGED <<shim, child, workflow, options, env, exitCode, out, calls, artifact, artifactKind, agentsFiles,
                   planFiles, docsBotConfig, event, diff, numstat, responseText, filtered,
                   response, docsBotResponse, testPlan, session, consumed, totalCost,
                   processedMessageIds>>

\* a mutant of NoData: the not-applicable exit is never taken
NoData_Never(value) == FALSE

\* planner.ts 230 (!changeSummary), docs-checker.ts 239 (!prInfo)
NoData(value) == ~IsSome(value)

\* planner.ts 230-234: no change summary is the not-applicable exit
PlanCheckSummary ==
    /\ workflow = "plan" /\ pc = "haveSummary"
    /\ IF NoData(changeSummary)
       THEN /\ out' = Append(out, Log("No PR data available"))
            /\ exitCode' = 0
            /\ pc' = "done"
       ELSE /\ pc' = "ensureAgents"
            /\ UNCHANGED <<out, exitCode>>
    /\ UNCHANGED <<shim, child, workflow, options, env, calls, artifact, artifactKind, agentsFiles,
                   planFiles, docsBotConfig, event, diff, numstat, prInfo, responseText, filtered,
                   response, docsBotResponse, changeSummary, testPlan, session, consumed,
                   totalCost, processedMessageIds>>

AllAgents == {"playwright-test-planner", "playwright-test-generator"}

\* planner.ts 119-124, 236: the setup command runs when the planner persona is
\* missing; it may fail
PlanEnsureAgents ==
    /\ workflow = "plan" /\ pc = "ensureAgents"
    /\ IF "playwright-test-planner" \in agentsFiles
       THEN /\ pc' = "query"
            /\ UNCHANGED <<calls, agentsFiles>>
       ELSE /\ calls' = Append(calls, "npx playwright init-agents")
            /\ \/ /\ agentsFiles' = AllAgents
                  /\ pc' = "query"
               \/ /\ pc' = "rejected"
                  /\ UNCHANGED agentsFiles
    /\ UNCHANGED <<shim, child, workflow, options, env, exitCode, out, artifact, artifactKind,
                   planFiles, docsBotConfig, event, diff, numstat, prInfo, responseText, filtered,
                   response, docsBotResponse, changeSummary, testPlan, session, consumed,
                   totalCost, processedMessageIds>>

\* planner.ts 242-272: the ledger is created and the session is opened
PlanQuery ==
    /\ workflow = "plan" /\ pc = "query"
    /\ totalCost' = 0
    /\ processedMessageIds' = {}
    /\ calls' = Append(calls, "query")
    /\ options' = Some(Options(50, MaxBudgetUsd(env.PLAYMAKER_MAX_BUDGET)))
    /\ session' = "Streaming"
    /\ consumed' = <<>>
    /\ changeSummary' = None
    /\ pc' = "loop"
    /\ UNCHANGED <<shim, child, workflow, env, exitCode, out, artifact, artifactKind, agentsFiles,
                   planFiles, docsBotConfig, event, diff, numstat, prInfo, responseText, filtered,
                   response, docsBotResponse, testPlan>>

(***************************************************************************)
(* The target-URL variants of createTestPlan (planner.ts 1-103 and         *)
(* unnamed/part_000): no change-set extraction, no persona initialisation, *)
(* no meter and no budget guard.                                           *)
(***************************************************************************)
\* what process.argv[2] may be
TargetUrls == {Undefined, "https://example.com"}

\* what the session of a target-URL variant may deliver
TargetUrlEvents ==
    {Assistant("msg_1", None, Some("text"), None),
     Assistant("msg_1", Some(Usage(Some(1), Some(1), None)), None, None),
     ErrorMessage("budget_exceeded"), ResultMessage}

\* planner.ts 5-8, 95-100 (part_000 46-51): planner.ts reads the planner persona
\* when the module is loaded, which throws when the file is absent; then both
\* variants require the target URL
TargetUrlStart ==
    /\ workflow \in TargetUrlVariants /\ pc = "start"
    /\ IF workflow = "planUrl" /\ "playwright-test-planner" \notin agentsFiles
       THEN /\ out' = Append(out, Err("uncaught error"))
            /\ exitCode' = 1
            /\ pc' = "done"
       ELSE \E targetUrl \in TargetUrls :
                IF ~Truthy(targetUrl)
                THEN /\ out' = Append(out, Err("Usage: npm run plan <target-url>"))
                     /\ exitCode' = 1
                     /\ pc' = "done"
                ELSE /\ pc' = "query"
                     /\ UNCHANGED <<out, exitCode>>
    /\ UNCHANGED <<shim, child, workflow, options, env, calls, artifact, artifactKind, agentsFiles,
                   planFiles, docsBotConfig, event, diff, numstat, prInfo, responseText,
                   filtered, response, docsBotResponse, changeSummary, testPlan, session,
                   consumed, totalCost, processedMessageIds>>

\* planner.ts 28-78 (part_000 18-29): the session is opened with maxTurns and
\* no maxBudgetUsd
TargetUrlQuery ==
    /\ workflow \in TargetUrlVariants /\ pc = "query"
    /\ calls' = Append(calls, "query")
    /\ options' = Some(Options(50, Ceiling("absent", 0)))
    /\ session' = "Streaming"
    /\ consumed' = <<>>
    /\ pc' = "loop"
    /\ UNCHANGED <<shim, child, workflow, env, exitCode, out, artifact, artifactKind, agentsFiles,
                   planFiles, docsBotConfig, event, diff, numstat, prInfo, responseText,
                   filtered, response, docsBotResponse, changeSummary, testPlan, totalCost,
                   processedMessageIds>>

\* planner.ts 80-89 (part_000 31-40): one turn of the loop; it displays the text
\* and does nothing else
TargetUrlLoopEvent ==
    /\ workflow \in TargetUrlVariants /\ pc = "loop"
    /\ Len(consumed) < MaxEvents
    /\ \E message \in TargetUrlEvents :
        /\ consumed' = Append(consumed, message)
        /\ out' = out \o DisplayText(message)
    /\ UNCHANGED <<shim, child, workflow, options, env, pc, exitCode, calls, artifact, artifactKind,
                   agentsFiles, planFiles, docsBotConfig, event, diff, numstat, prInfo,
                   responseText, filtered, response, docsBotResponse, changeSummary,
                   testPlan, session, totalCost, processedMessageIds>>

\* planner.ts 91 (part_000 42): the report after the loop
TargetUrlReport ==
    /\ workflow \in TargetUrlVariants /\ pc = "afterLoop"
    /\ out' = Append(out, Log("Test plan created in specs/ directory"))
    /\ pc' = "done"
    /\ UNCHANGED <<shim, child, workflow, options, env, exitCode, calls, artifact, artifactKind,
                   agentsFiles, planFiles, docsBotConfig, event, diff, numstat, prInfo,
                   responseText, filtered, response, docsBotResponse, changeSummary,
                   testPlan, session, consumed, totalCost, processedMessageIds>>

(***************************************************************************)
(* generate: generateTest (generator.ts).                                  *)
(***************************************************************************)
PlanFile(stem, ext, content) == [stem |-> stem, ext |-> ext, content |-> content]

\* the specs/ directory: missing, or its files in readdir order
SpecsDirs ==
    {None,
     Some(<<>>),
     Some(<<PlanFile("README", ".md", "readme")>>),
     Some(<<PlanFile("empty", ".md", "")>>),
     Some(<<PlanFile("README", ".md", "readme"), PlanFile("search", ".md", "plan A")>>),
     Some(<<PlanFile("cart", ".md", "plan B"), PlanFile("search", ".md", "plan A")>>)}

\* generator.ts 36: f.endsWith(".md") && f !== "README.md"
IsPlanFile(f) == f.ext = ".md" /\ ~(f.stem = "README" /\ f.ext = ".md")

\* generator.ts 30-47: null, or the content of the first plan file
getTestPlan(dir) ==
    IF ~IsSome(dir) THEN None
    ELSE LET files == SelectSeq(The(dir), IsPlanFile)
         IN  IF Len(files) = 0 THEN None ELSE Some(files[1].content)

\* generator.ts 50-55: no plan is the skip exit
GetTestPlan ==
    /\ workflow = "generate" /\ pc = "start"
    /\ LET plan == getTestPlan(planFiles)
       IN  IF ~IsSome(plan) \/ ~Truthy(The(plan))
           THEN /\ out' = Append(out, Log("No test plan available"))
                /\ exitCode' = 0
                /\ pc' = "done"
                /\ UNCHANGED testPlan
           ELSE /\ testPlan' = plan
                /\ pc' = "ensureAgents"
                /\ UNCHANGED <<out, exitCode>>
    /\ UNCHANGED <<shim, child, workflow, options, env, calls, artifact, artifactKind, agentsFiles,
                   planFiles, docsBotConfig, event, diff, numstat, prInfo, responseText, filtered,
                   response, docsBotResponse, changeSummary, session, consumed, totalCost,
                   processedMessageIds>>

\* generator.ts 8-25, 57: the setup command runs when a persona is missing; it
\* may fail, or succeed without writing the generator persona
GenerateEnsureAgents ==
    /\ workflow = "generate" /\ pc = "ensureAgents"
    /\ IF agentsFiles = AllAgents
       THEN /\ pc' = "query"
            /\ UNCHANGED <<calls, agentsFiles, out, exitCode>>
       ELSE /\ calls' = Append(calls, "npx playwright init-agents")
            /\ \/ /\ pc' = "rejected"
                  /\ UNCHANGED <<agentsFiles, out, exitCode>>
               \/ \E after \in {AllAgents, agentsFiles \cup {"playwright-test-planner"}} :
                    /\ agentsFiles' = after
                    /\ IF "playwright-test-generator" \notin after
                       THEN /\ out' = Append(out,
                                        Err("playwright-test-generator agent not found"))
                            /\ exitCode' = 1
                            /\ pc' = "done"
                       ELSE /\ pc' = "query"
                            /\ UNCHANGED <<out, exitCode>>
    /\ UNCHANGED <<shim, child, workflow, options, env, artifact, artifactKind,
                   planFiles, docsBotConfig, event, diff, numstat, prInfo, responseText, filtered,
                   response, docsBotResponse, changeSummary, testPlan, session, consumed,
                   totalCost, processedMessageIds>>

\* generator.ts 62-101: the total is created and the session is opened
GenerateQuery ==
    /\ workflow = "generate" /\ pc = "query"
    /\ totalCost' = 0
    /\ calls' = Append(calls, "query")
    /\ options' = Some(Options(50, MaxBudgetUsd(env.PLAYMAKER_MAX_BUDGET)))
    /\ session' = "Streaming"
    /\ consumed' = <<>>
    /\ testPlan' = None
    /\ pc' = "loop"
    /\ UNCHANGED <<shim, child, workflow, env, exitCode, out, artifact, artifactKind, agentsFiles,
                   planFiles, docsBotConfig, event, diff, numstat, prInfo, responseText, filtered,
                   response, docsBotResponse, changeSummary, processedMessageIds>>

\* generator.ts 105: a system message with a numeric cost
HasCost(message) == message.type = "system" /\ IsSome(message.cost)

\* generator.ts 118-127: what the loop prints for a Task tool_use block
DisplayTask(message) ==
    IF IsAssistant(message) /\ IsSome(message.task)
    THEN <<Log("Invoking agent")>>
         \o (IF The(message.task) = "playwright-test-planner"
             THEN <<Err("WARNING: Using planner agent instead of generator")>>
             ELSE <<>>)
    ELSE <<>>

\* generator.ts 103-136: one turn of the loop on the next event of the stream
GenerateLoopEvent ==
    /\ workflow = "generate" /\ pc = "loop"
    /\ Len(consumed) < MaxEvents
    /\ \E message \in GenerateEvents :
        /\ consumed' = Append(consumed, message)
        /\ totalCost' = IF HasCost(message) THEN totalCost + The(message.cost)
                        ELSE totalCost
        /\ IF IsBudgetExceeded(message)
           THEN /\ out' = Append(out, BudgetLine)
                /\ session' = "BudgetExceeded"
                /\ pc' = "afterLoop"
           ELSE /\ out' = out \o DisplayTask(message) \o DisplayText(message)
                /\ UNCHANGED <<session, pc>>
    /\ UNCHANGED <<shim, child, workflow, options, env, exitCode, calls, artifact, artifactKind, agentsFiles,
                   planFiles, docsBotConfig, event, diff, numstat, prInfo, responseText, filtered,
                   response, docsBotResponse, changeSummary, testPlan, processedMessageIds>>

\* generator.ts 138-139: the report after the loop
GenerateReport ==
    /\ workflow = "generate" /\ pc = "afterLoop"
    /\ out' = out \o <<Log("Test generated in tests/ directory"),
                       Line("log", "Total cost", totalCost, 0)>>
    /\ pc' = "done"
    /\ UNCHANGED <<shim, child, workflow, options, env, exitCode, calls, artifact, artifactKind, agentsFiles,
                   planFiles, docsBotConfig, event, diff, numstat, prInfo, responseText, filtered,
                   response, docsBotResponse, changeSummary, testPlan, session, consumed,
                   totalCost, processedMessageIds>>

(***************************************************************************)
(* docs-check: checkDocs (docs-checker.ts).                                *)
(***************************************************************************)
\* docs-checker.ts 36-38: one line per missing name, in this order
MissingLines(apiKey, teamId, botId) ==
    (IF ~Truthy(apiKey) THEN <<Err("  - DOCSBOT_API_KEY")>> ELSE <<>>)
    \o (IF ~Truthy(teamId) THEN <<Err("  - DOCSBOT_TEAM_ID")>> ELSE <<>>)
    \o (IF ~Truthy(botId) THEN <<Err("  - DOCSBOT_BOT_ID")>> ELSE <<>>)

\* a mutant of EnvIncomplete: the bot identifier is not checked
EnvIncomplete_NoBotId(apiKey, teamId, botId) == ~Truthy(apiKey) \/ ~Truthy(teamId)

\* docs-checker.ts 34
EnvIncomplete(apiKey, teamId, botId) ==
    ~Truthy(apiKey) \/ ~Truthy(teamId) \/ ~Truthy(botId)

\* docs-checker.ts 29-43, 214-217: the credentials are validated first
ValidateDocsBotEnv ==
    /\ workflow = "docs" /\ pc = "start"
    /\ LET apiKey == env.DOCSBOT_API_KEY
           teamId == env.DOCSBOT_TEAM_ID
           botId == env.DOCSBOT_BOT_ID
       IN
        /\ UNCHANGED env
        /\ IF EnvIncomplete(apiKey, teamId, botId)
           THEN /\ out' = out
                          \o <<Err("Missing required DocsBot environment variables:")>>
                          \o MissingLines(apiKey, teamId, botId)
                /\ exitCode' = 1
                /\ pc' = "done"
                /\ docsBotConfig' = None
           ELSE /\ docsBotConfig' = Some([apiKey |-> apiKey, teamId |-> teamId,
                                          botId |-> botId])
                /\ pc' = "prInfo"
                /\ UNCHANGED <<out, exitCode>>
    /\ UNCHANGED <<shim, child, workflow, options, calls, artifact, artifactKind, agentsFiles, planFiles,
                   event, diff, numstat, prInfo, responseText, filtered, response, docsBotResponse,
                   changeSummary, testPlan, session, consumed, totalCost,
                   processedMessageIds>>

FileEntry(filename, status, additions, deletions) ==
    [filename |-> filename, status |-> status, additions |-> additions,
     deletions |-> deletions]

\* docs-checker.ts 223-234: the fixed ChangeSet of mock mode
MockPRInfo ==
    [number |-> 123, title |-> "Update button label",
     body |-> "Summary by CodeRabbit",
     files |-> <<FileEntry("includes/admin/metaboxes/views/data-source.php",
                           "modified", 1, 1),
                 FileEntry(".github/workflows/docs-check.yml", "added", 30, 0)>>,
     diff |-> <<>>]

\* docs-checker.ts 220-237: mock data or the pull request
DocsGetPRInfo ==
    /\ workflow = "docs" /\ pc = "prInfo"
    /\ LET mock == env.PLAYMAKER_MOCK IN
        /\ UNCHANGED env
        /\ IF Truthy(mock)
           THEN /\ prInfo' = Some(MockPRInfo)
                /\ pc' = "gotPRInfo"
           ELSE /\ pc' = "getPRInfo"
                /\ UNCHANGED prInfo
    /\ UNCHANGED <<shim, child, workflow, options, exitCode, out, calls, artifact, artifactKind, agentsFiles,
                   planFiles, docsBotConfig, event, diff, numstat, responseText, filtered,
                   response, docsBotResponse, changeSummary, testPlan, session, consumed,
                   totalCost, processedMessageIds>>

\* docs-checker.ts 239-243: no pull request is the not-applicable exit
DocsCheckPRInfo ==
    /\ workflow = "docs" /\ pc = "gotPRInfo"
    /\ IF NoData(prInfo)
       THEN /\ out' = Append(out, Log("No PR data available"))
            /\ exitCode' = 0
            /\ pc' = "done"
       ELSE /\ pc' = "filter"
            /\ UNCHANGED <<out, exitCode>>
    /\ UNCHANGED <<shim, child, workflow, options, env, calls, artifact, artifactKind, agentsFiles, planFiles,
                   docsBotConfig, event, diff, numstat, prInfo, responseText, filtered,
                   response, docsBotResponse, changeSummary, testPlan, session, consumed,
                   totalCost, processedMessageIds>>

(***************************************************************************)
(* filterRelevantChanges (docs-checker.ts 112-168). A reply is a sequence  *)
(* of tokens: "{" and "}", "prose" (text without braces, a code fence      *)
(* included), and the members of the verdict object, each standing for     *)
(* the member and the comma that joins it to its neighbours:               *)
(*   "T"  "hasRelevantChanges": true       "F"  "hasRelevantChanges": false*)
(*   "N"  "hasRelevantChanges": null       "S"  "summary": .., "reason": ..*)
(* A first content block that is not text gives the empty reply.           *)
(***************************************************************************)
ReplyTokens == {"{", "}", "prose", "T", "F", "N", "S"}
Members == {"T", "F", "N", "S"}

\* longer replies: a verdict in a code fence; a verdict followed by prose with
\* a second object; a verdict followed by a stray closing brace; a stray
\* opening brace before a verdict
WrappedReplies ==
    {<<"prose", "{", "F", "S", "}", "prose">>,
     <<"{", "F", "S", "}", "prose", "{", "}">>,
     <<"{", "T", "S", "}", "prose", "}">>,
     <<"{", "prose", "{", "F", "S", "}">>}

\* the replies of the classification request
Replies == UNION {[1..n -> ReplyTokens] : n \in 0..MaxReply} \cup WrappedReplies

\* docs-checker.ts 154: /\{[\s\S]*\}/ matches from the first "{" to the last "}"
JsonMatch(reply) ==
    LET opens == {i \in 1..Len(reply) : reply[i] = "{"}
        closes == {i \in 1..Len(reply) : reply[i] = "}"}
        first == CHOOSE i \in opens : \A j \in opens : i <= j
        last == CHOOSE i \in closes : \A j \in closes : j <= i
    IN  IF opens = {} \/ closes = {} THEN None
        ELSE IF first < last THEN Some(SubSeq(reply, first, last))
        ELSE None

\* JSON.parse accepts the matched text: one object of members
IsJson(text) ==
    /\ Len(text) >= 2
    /\ text[1] = "{" /\ text[Len(text)] = "}"
    /\ \A i \in 2..(Len(text) - 1) : text[i] \in Members

\* the value JSON.parse gives a member of the object: the last one written wins
RelevanceOf(text) ==
    LET rel == {i \in 1..Len(text) : text[i] \in {"T", "F", "N"}}
        last == CHOOSE i \in rel : \A j \in rel : j <= i
    IN  IF rel = {} THEN Undefined
        ELSE CASE text[last] = "T" -> "true"
               [] text[last] = "F" -> "false"
               [] OTHER -> Null

\* docs-checker.ts 156: the parsed object, returned as it is
ParsedVerdict(text) ==
    LET described == \E i \in 1..Len(text) : text[i] = "S"
    IN  [hasRelevantChanges |-> RelevanceOf(text),
         summary |-> IF described THEN "summary of the reply" ELSE Undefined,
         reason |-> IF described THEN "reason of the reply" ELSE Undefined]

FallbackReason == "Could not determine relevance, defaulting to check"

\* docs-checker.ts 163-167
FallbackVerdict(info) ==
    [hasRelevantChanges |-> "true",
     summary |-> IF Truthy(info.body) THEN info.body ELSE info.title,
     reason |-> FallbackReason]

\* docs-checker.ts 150-167: the verdict for a reply
FilterVerdict(reply, info) ==
    LET jsonMatch == JsonMatch(reply)
    IN  IF IsSome(jsonMatch) /\ IsJson(The(jsonMatch))
        THEN ParsedVerdict(The(jsonMatch))
        ELSE FallbackVerdict(info)

\* docs-checker.ts 144-168, 249: the one classification request and its verdict;
\* the request may fail. responseText keeps the reply until the branch on it.
FilterRelevantChanges ==
    /\ workflow = "docs" /\ pc = "filter"
    /\ calls' = Append(calls, "anthropic messages.create")
    /\ \/ /\ pc' = "rejected"
          /\ UNCHANGED <<responseText, filtered>>
       \/ \E reply \in Replies :
            /\ responseText' = Some(reply)
            /\ filtered' = Some(FilterVerdict(reply, The(prInfo)))
            /\ pc' = "filtered"
    /\ UNCHANGED <<shim, child, workflow, options, env, exitCode, out, artifact, artifactKind, agentsFiles,
                   planFiles, docsBotConfig, event, diff, numstat, prInfo, response, docsBotResponse,
                   changeSummary, testPlan, session, consumed, totalCost,
                   processedMessageIds>>

\* a mutant of NotRelevant: the not-relevant exit is never taken
NotRelevant_Never(verdict) == FALSE

\* docs-checker.ts 255: the branch to the not-relevant exit
NotRelevant(verdict) == ~Truthy(verdict.hasRelevantChanges)

\* docs-checker.ts 251-274: the not-relevant exit writes the report and stops
CheckRelevance ==
    /\ workflow = "docs" /\ pc = "filtered"
    /\ responseText' = None
    /\ IF NotRelevant(The(filtered))
       THEN /\ artifact' = "fresh"
            /\ artifactKind' = "noUpdates"
            /\ out' = out \o <<Log("No documentation-relevant changes found"),
                               Log("Report saved")>>
            /\ exitCode' = 0
            /\ pc' = "done"
       ELSE /\ pc' = "docsbot"
            /\ UNCHANGED <<artifact, artifactKind, out, exitCode>>
    /\ UNCHANGED <<shim, child, workflow, options, env, calls, agentsFiles, planFiles, docsBotConfig, event, diff, numstat,
                   prInfo, filtered, response, docsBotResponse, changeSummary, testPlan,
                   session, consumed, totalCost, processedMessageIds>>

(***************************************************************************)
(* queryDocsBot (docs-checker.ts 173-207) and the rest of checkDocs.       *)
(***************************************************************************)
HttpResponse(status, parses, answer, sources) ==
    [status |-> status, parses |-> parses, answer |-> answer, sources |-> sources]

\* what the knowledge service may answer
HttpResponses ==
    {HttpResponse(200, TRUE, "the answer", Some(<<"source">>)),
     HttpResponse(200, TRUE, Undefined, None),
     HttpResponse(200, FALSE, Undefined, None),
     HttpResponse(404, TRUE, Undefined, None),
     HttpResponse(500, FALSE, Undefined, None)}

\* a mutant of ResponseOk: every response counts as a success
ResponseOk_Always(r) == TRUE

\* response.ok (docs-checker.ts 198): a 2xx status
ResponseOk(r) == r.status >= 200 /\ r.status <= 299

\* docs-checker.ts 203-206
DocsBotAnswer(r) ==
    [answer |-> IF Truthy(r.answer) THEN r.answer
                ELSE "No response from DocsBot.",
     sources |-> IF IsSome(r.sources) THEN The(r.sources) ELSE <<>>]

\* docs-checker.ts 186-207, 281-288: the one knowledge query; a network failure,
\* a non-2xx status and an unreadable body all end the run with code 1
QueryDocsBot ==
    /\ workflow = "docs" /\ pc = "docsbot"
    /\ calls' = Append(calls, "fetch api.docsbot.ai")
    /\ docsBotConfig' = None
    /\ \/ /\ response' = None
          /\ out' = Append(out, Line("error", "DocsBot API error", 0, 0))
          /\ exitCode' = 1
          /\ pc' = "done"
          /\ UNCHANGED docsBotResponse
       \/ \E r \in HttpResponses :
            /\ response' = Some(r)
            /\ IF ~ResponseOk(r)
               THEN /\ out' = Append(out, Line("error", "DocsBot API error", r.status, 0))
                    /\ exitCode' = 1
                    /\ pc' = "done"
                    /\ UNCHANGED docsBotResponse
               ELSE IF ~r.parses
               THEN /\ out' = Append(out, Line("error", "DocsBot API error", 0, 0))
                    /\ exitCode' = 1
                    /\ pc' = "done"
                    /\ UNCHANGED docsBotResponse
               ELSE /\ docsBotResponse' = Some(DocsBotAnswer(r))
                    /\ pc' = "query"
                    /\ UNCHANGED <<out, exitCode>>
    /\ UNCHANGED <<shim, child, workflow, options, env, artifact, artifactKind, agentsFiles, planFiles, event,
                   diff, numstat, prInfo, responseText, filtered, changeSummary, testPlan,
                   session, consumed, totalCost, processedMessageIds>>

\* docs-checker.ts 299-341: the session is opened and handed to trackQuery,
\* which creates the ledger
DocsQuery ==
    /\ workflow = "docs" /\ pc = "query"
    /\ calls' = Append(calls, "query")
    /\ options' = Some(Options(20, MaxBudgetUsd(env.PLAYMAKER_MAX_BUDGET)))
    /\ session' = "Streaming"
    /\ consumed' = <<>>
    /\ totalCost' = 0
    /\ processedMessageIds' = {}
    /\ prInfo' = None
    /\ filtered' = None
    /\ response' = None
    /\ docsBotResponse' = None
    /\ pc' = "loop"
    /\ UNCHANGED <<shim, child, workflow, env, exitCode, out, artifact, artifactKind, agentsFiles,
                   planFiles, docsBotConfig, event, diff, numstat, responseText, changeSummary,
                   testPlan>>

\* trackQuery (utils/query-tracker): one event. The meter deduplicates usage by
\* step identifier, the guard stops at a budget-exceeded event, and the
\* onAssistantMessage callback (docs-checker.ts 342-349) displays the text.
TrackQueryEvent ==
    /\ workflow = "docs" /\ pc = "loop"
    /\ Len(consumed) < MaxEvents
    /\ \E message \in DocsEvents :
        /\ consumed' = Append(consumed, message)
        /\ IF IsNewUsage(message, processedMessageIds)
           THEN /\ processedMessageIds' = processedMessageIds \cup {message.id}
                /\ totalCost' = totalCost + StepCost(The(message.usage))
           ELSE UNCHANGED <<processedMessageIds, totalCost>>
        /\ IF IsBudgetExceeded(message)
           THEN /\ out' = out \o DisplayText(message) \o <<BudgetLine>>
                /\ session' = "BudgetExceeded"
                /\ pc' = "afterLoop"
           ELSE /\ out' = out \o DisplayText(message)
                /\ UNCHANGED <<session, pc>>
    /\ UNCHANGED <<shim, child, workflow, options, env, exitCode, calls, artifact, artifactKind, agentsFiles,
                   planFiles, docsBotConfig, event, diff, numstat, prInfo, responseText, filtered,
                   response, docsBotResponse, changeSummary, testPlan>>

\* trackQuery: the stream ends and the totals are returned
TrackQueryEnd ==
    /\ workflow = "docs" /\ pc = "loop"
    /\ session' = "Completed"
    /\ pc' = "afterLoop"
    /\ UNCHANGED <<shim, child, workflow, options, env, exitCode, out, calls, artifact, artifactKind,
                   agentsFiles, planFiles, docsBotConfig, event, diff, numstat, prInfo,
                   responseText, filtered, response, docsBotResponse, changeSummary, testPlan,
                   consumed, totalCost, processedMessageIds>>

\* trackQuery: the stream raises and the awaited call rejects
TrackQueryThrows ==
    /\ workflow = "docs" /\ pc = "loop"
    /\ session' = "Failed"
    /\ pc' = "rejected"
    /\ UNCHANGED <<shim, child, workflow, options, env, exitCode, out, calls, artifact, artifactKind,
                   agentsFiles, planFiles, docsBotConfig, event, diff, numstat, prInfo,
                   responseText, filtered, response, docsBotResponse, changeSummary, testPlan,
                   consumed, totalCost, processedMessageIds>>

\* a mutant of ReportExists: the verification is skipped
ReportExists_Always(state) == TRUE

\* docs-checker.ts 353: existsSync(reportPath)
ReportExists(state) == state # "absent"

\* docs-checker.ts 352-361: the report is verified and the totals are printed
DocsVerifyReport ==
    /\ workflow = "docs" /\ pc = "afterLoop"
    /\ IF ReportExists(artifact)
       THEN /\ out' = out \o <<Log("Documentation report created: docs-report.md"),
                               Line("log", "Total cost", totalCost,
                                    Cardinality(processedMessageIds))>>
            /\ UNCHANGED exitCode
       ELSE /\ out' = out \o <<Err("No docs-report.md found"),
                               Line("log", "Total cost", totalCost,
                                    Cardinality(processedMessageIds))>>
            /\ exitCode' = 1
    /\ pc' = "done"
    /\ UNCHANGED <<shim, child, workflow, options, env, calls, artifact, artifactKind, agentsFiles, planFiles,
                   docsBotConfig, event, diff, numstat, prInfo, responseText, filtered,
                   response, docsBotResponse, changeSummary, testPlan, session, consumed,
                   totalCost, processedMessageIds>>

\* a mutant of DocsCatch: a run that failed with its ChangeSet in hand goes
\* back to the classification
DocsCatch_Retry ==
    /\ workflow = "docs" /\ pc = "rejected"
    /\ out' = Append(out, Err("uncaught error"))
    /\ IF IsSome(prInfo)
       THEN pc' = "filter" /\ UNCHANGED exitCode
       ELSE pc' = "done" /\ exitCode' = 1
    /\ UNCHANGED <<shim, child, workflow, options, env, calls, artifact, artifactKind, agentsFiles, planFiles,
                   docsBotConfig, event, diff, numstat, prInfo, responseText, filtered,
                   response, docsBotResponse, changeSummary, testPlan, session, consumed,
                   totalCost, processedMessageIds>>

\* docs-checker.ts 364-367: the rejection is printed and the exit code is 1
DocsCatch ==
    /\ workflow = "docs" /\ pc = "rejected"
    /\ out' = Append(out, Err("uncaught error"))
    /\ exitCode' = 1
    /\ pc' = "done"
    /\ UNCHANGED <<shim, child, workflow, options, env, calls, artifact, artifactKind, agentsFiles, planFiles,
                   docsBotConfig, event, diff, numstat, prInfo, responseText, filtered,
                   response, docsBotResponse, changeSummary, testPlan, session, consumed,
                   totalCost, processedMessageIds>>

(***************************************************************************)
(* The CLI entry shims (bin/playmaker.js, bin/playmaker-docs-check.js,     *)
(* bin/playmaker-generate.js): spawn("npx", ["tsx", script], { stdio:      *)
(* "inherit" }).on("exit", process.exit).                                  *)
(***************************************************************************)
\* a shim process; state: "none" | "start" | "waiting" | "exited" | "killed"
Shim(name, state, code, signal) ==
    [name |-> name, state |-> state, code |-> code, signal |-> signal]
NoShim == Shim("", "none", 0, "")

\* the spawned process; state: "none" | "running" | "exited" | "killed"; code is
\* the first argument of its exit event (null when a signal ended it), signal
\* the second
Child(state, code, signal) == [state |-> state, code |-> code, signal |-> signal]
NoChild == Child("none", None, "")

\* bin/*.js 7: the script each shim runs
ShimNames == {"playmaker", "playmaker-docs-check", "playmaker-generate"}
ScriptOf(name) ==
    CASE name = "playmaker" -> "plan"
      [] name = "playmaker-docs-check" -> "docs"
      [] name = "playmaker-generate" -> "generate"

\* the signals an interrupt from outside may deliver
Signals == {"SIGINT", "SIGTERM"}

\* process.exit(code): a null code leaves process.exitCode, which is 0
ProcessExit(code) == IF IsSome(code) THEN The(code) ELSE 0

(***************************************************************************)
(* The runs.                                                               *)
(***************************************************************************)
\* the state of a script when it starts
ScriptInit ==
    /\ workflow \in {"docs", "plan", "generate"} \cup TargetUrlVariants
    /\ env \in Envs(workflow)
    /\ pc = "start"
    /\ exitCode = 0
    /\ out = <<>>
    /\ calls = <<>>
    /\ artifact \in {"absent", "stale"}
    /\ artifactKind = ""
    /\ agentsFiles \in CASE workflow = "docs" -> {{}}
                        [] workflow = "planUrl" -> {{}, {"playwright-test-planner"}}
                        [] workflow = "planUrlAgent" -> {{"playwright-test-planner"}}
                        [] OTHER -> SUBSET AllAgents
    /\ planFiles \in IF workflow = "generate" THEN SpecsDirs ELSE {None}
    /\ docsBotConfig = None
    /\ event = None
    /\ diff = <<>>
    /\ numstat = None
    /\ prInfo = None
    /\ responseText = None
    /\ filtered = None
    /\ response = None
    /\ docsBotResponse = None
    /\ changeSummary = None
    /\ testPlan = None
    /\ options = None
    /\ session = "none"
    /\ consumed = <<>>
    /\ totalCost = 0
    /\ processedMessageIds = {}

\* a script started directly (npx tsx <script>, npm run), without a shim
Init ==
    /\ ScriptInit
    /\ shim = NoShim
    /\ child = NoChild

Next ==
    \/ ValidateDocsBotEnv
    \/ DocsGetPRInfo
    \/ GetPRInfo_ReadEvent
    \/ GetPRInfo_GitDiff
    \/ GetPRInfo_GitNumstat
    \/ GetPRInfo_Return
    \/ DocsCheckPRInfo
    \/ FilterRelevantChanges
    \/ CheckRelevance
    \/ QueryDocsBot
    \/ DocsQuery
    \/ TrackQueryEvent
    \/ TrackQueryEnd
    \/ TrackQueryThrows
    \/ DocsVerifyReport
    \/ DocsCatch
    \/ GetChangeSummary
    \/ GetChangeSummary_Return
    \/ PlanCheckSummary
    \/ PlanEnsureAgents
    \/ PlanQuery
    \/ PlanLoopEvent
    \/ PlanReport
    \/ GetTestPlan
    \/ GenerateEnsureAgents
    \/ GenerateQuery
    \/ GenerateLoopEvent
    \/ GenerateReport
    \/ TargetUrlStart
    \/ TargetUrlQuery
    \/ TargetUrlLoopEvent
    \/ TargetUrlReport
    \/ StreamEnd
    \/ StreamThrows
    \/ CatchConsoleError
    \/ AgentWritesArtifact

Spec == Init /\ [][Next]_vars

(***************************************************************************)
(* A run started through a shim.                                           *)
(***************************************************************************)
\* the variables of the script
scriptVars == <<workflow, env, pc, exitCode, out, calls, artifact, artifactKind,
                agentsFiles, planFiles, docsBotConfig, event, diff, numstat, prInfo,
                responseText, filtered, response, docsBotResponse, changeSummary,
                testPlan, options, session, consumed, totalCost, processedMessageIds>>

\* a shim is started; its script will run in mock mode where it has one, with
\* no budget override, no artifact of an earlier run and the personas in place
ShimInit ==
    /\ ScriptInit
    /\ shim \in {Shim(name, "start", 0, "") : name \in ShimNames}
    /\ child = NoChild
    /\ workflow = ScriptOf(shim.name)
    /\ env.PLAYMAKER_MAX_BUDGET = None
    /\ workflow \in {"docs", "plan"} =>
          env.PLAYMAKER_MOCK = "set" /\ env.GITHUB_EVENT_PATH = Undefined
    /\ artifact = "absent"
    /\ workflow # "docs" => agentsFiles = AllAgents

\* bin/*.js 9: spawn; when the command cannot be started the child emits
\* "error", which nothing listens to, and the shim ends with an uncaught error
ShimSpawn ==
    /\ shim.state = "start"
    /\ \/ /\ child' = Child("running", None, "")
          /\ shim' = [shim EXCEPT !.state = "waiting"]
       \/ /\ shim' = [shim EXCEPT !.state = "exited", !.code = 1]
          /\ UNCHANGED child
    /\ UNCHANGED scriptVars

\* the script runs in the child
ChildRuns ==
    /\ child.state = "running"
    /\ Next

\* the script has ended: the child exits with the script's exit code
ChildExit ==
    /\ child.state = "running" /\ pc = "done"
    /\ child' = Child("exited", Some(exitCode), "")
    /\ UNCHANGED <<shim, scriptVars>>

\* an interrupt from outside reaches the child, the shim or both (the process
\* group); neither installs a handler, so the signal ends what it reaches
Interrupt ==
    /\ child.state = "running"
    /\ \E signal \in Signals :
       \E targets \in (SUBSET ({"child"} \cup IF shim.state = "waiting" THEN {"shim"}
                                              ELSE {})) \ {{}} :
          /\ child' = IF "child" \in targets THEN Child("killed", None, signal)
                      ELSE child
          /\ shim' = IF "shim" \in targets
                     THEN [shim EXCEPT !.state = "killed", !.signal = signal]
                     ELSE shim
    /\ UNCHANGED scriptVars

\* bin/*.js 9: the child's exit event calls process.exit with the event's
\* arguments (code, signal)
ShimOnExit ==
    /\ shim.state = "waiting"
    /\ child.state \in {"exited", "killed"}
    /\ shim' = [shim EXCEPT !.state = "exited", !.code = ProcessExit(child.code)]
    /\ UNCHANGED <<child, scriptVars>>

ShimNext ==
    \/ ShimSpawn
    \/ ChildRuns
    \/ ChildExit
    \/ Interrupt
    \/ ShimOnExit

ShimSpec == ShimInit /\ [][ShimNext]_vars

(***************************************************************************)
(* The claims. Their helpers are written from the claims' words, not from  *)
(* the operators of the loops above.                                       *)
(***************************************************************************)
\* the event is a budget-exceeded event
BudgetEvent(message) == message.type = "error" /\ message.errorType = "budget_exceeded"

\* the event carries usage data under a step identifier
UsageEvent(message) ==
    message.type = "assistant" /\ message.hasMessage
    /\ message.id \notin {"", Undefined, Null} /\ message.usage # <<>>

\* tokens * rate, a missing count being no tokens
RateCost(usage) ==
    (IF usage.input_tokens = <<>> THEN 0 ELSE usage.input_tokens[1]) * P_in
    + (IF usage.output_tokens = <<>> THEN 0 ELSE usage.output_tokens[1]) * P_out
    + (IF usage.cache_read_input_tokens = <<>> THEN 0
       ELSE usage.cache_read_input_tokens[1]) * P_cache

\* the step identifiers that carried usage data in the events h
UsageIds(h) == {h[i].id : i \in {j \in 1..Len(h) : UsageEvent(h[j])}}

\* the first event of h that carries usage data under id
FirstUsage(h, id) ==
    CHOOSE i \in 1..Len(h) :
        /\ UsageEvent(h[i]) /\ h[i].id = id
        /\ \A j \in 1..(i - 1) : ~(UsageEvent(h[j]) /\ h[j].id = id)

RECURSIVE SumOnce(_, _)
\* the sum over the identifiers ids of the cost of each one's first usage in h
SumOnce(h, ids) ==
    IF ids = {} THEN 0
    ELSE LET id == CHOOSE x \in ids : TRUE
         IN  RateCost(h[FirstUsage(h, id)].usage[1]) + SumOnce(h, ids \ {id})

\* C1: in the plan loop the running total is, at every point of every stream,
\* the sum over the distinct step identifiers that carried usage data of the
\* rate-table cost computed once per identifier, and the seen set is exactly
\* those identifiers; so a repeated identifier changes neither.
C1_MeteredOncePerId ==
    (workflow = "plan" /\ session # "none") =>
        /\ processedMessageIds = UsageIds(consumed)
        /\ totalCost = SumOnce(consumed, UsageIds(consumed))

\* C1's case: a finished plan run whose stream delivered the same identifier
\* twice, with usage data both times
C1_Witness ==
    /\ workflow = "plan" /\ pc = "done" /\ session = "Completed"
    /\ \E i \in 1..Len(consumed) : \E j \in (i + 1)..Len(consumed) :
        /\ UsageEvent(consumed[i]) /\ UsageEvent(consumed[j])
        /\ consumed[i].id = consumed[j].id
        /\ consumed[i].usage # consumed[j].usage
    /\ totalCost > 0

\* the total a finished run reported
ReportedTotals == {out[i].a : i \in {j \in 1..Len(out) : out[j].msg = "Total cost"}}

RECURSIVE SumSystemCost(_)
\* generate's meter: the sum of the numeric costs of the system events of h
SumSystemCost(h) ==
    IF h = <<>> THEN 0
    ELSE (IF Head(h).type = "system" /\ Head(h).cost # <<>> THEN Head(h).cost[1] ELSE 0)
         + SumSystemCost(Tail(h))

\* what the workflow's meter gives for the events h
Metered(h) ==
    IF workflow = "generate" THEN SumSystemCost(h) ELSE SumOnce(h, UsageIds(h))

\* C2: in the plan and generate loops a budget-exceeded event is the last event
\* ever taken from the stream: the loop is left at once, nothing after it is
\* metered or displayed, and the reported total is the metered cost of the
\* events up to and including it.
C2_BudgetStopsConsumption ==
    workflow \in {"plan", "generate"} =>
        /\ \A i \in 1..(Len(consumed) - 1) : ~BudgetEvent(consumed[i])
        /\ (consumed # <<>> /\ BudgetEvent(consumed[Len(consumed)])) =>
              /\ pc \in {"afterLoop", "done"}
              /\ session = "BudgetExceeded"
              /\ totalCost = Metered(consumed)
              /\ pc = "done" => ReportedTotals = {Metered(consumed)}

\* C2's case: a run stopped by a budget-exceeded event after metered events
C2_Witness ==
    /\ workflow \in {"plan", "generate"} /\ pc = "done"
    /\ Len(consumed) = MaxEvents - 1
    /\ BudgetEvent(consumed[Len(consumed)])
    /\ totalCost > 0
    /\ ReportedTotals = {totalCost}

\* the reply yields a parseable structured verdict: it holds a JSON object that
\* parses and carries a boolean relevance field
YieldsVerdict(reply) ==
    /\ IsSome(JsonMatch(reply))
    /\ IsJson(The(JsonMatch(reply)))
    /\ RelevanceOf(The(JsonMatch(reply))) \in {"true", "false"}

\* C3: a reply that yields no parseable structured verdict is treated as
\* relevant, for every ChangeSet: the pipeline does not take the not-relevant
\* exit and the rationale notes the fallback.
C3_FailOpen ==
    (workflow = "docs" /\ pc = "filtered" /\ ~YieldsVerdict(The(responseText))) =>
        /\ The(filtered).hasRelevantChanges \notin {"false", Null, Undefined}
        /\ The(filtered).reason = FallbackReason

\* C4: with a not-relevant verdict the run writes the no-updates report and
\* exits with code 0, and never queries the knowledge service or starts a session.
C4_NotRelevantExit ==
    (workflow = "docs" /\ IsSome(filtered)
     /\ The(filtered).hasRelevantChanges \in {"false", Null, Undefined}) =>
        /\ \A i \in 1..Len(calls) : calls[i] \notin {"fetch api.docsbot.ai", "query"}
        /\ session = "none"
        /\ pc \in {"filtered", "done"}
        /\ pc = "done" =>
              /\ exitCode = 0
              /\ artifact = "fresh" /\ artifactKind = "noUpdates"

\* C4's case: the run has left through the not-relevant exit
C4_Witness ==
    /\ workflow = "docs" /\ pc = "done"
    /\ IsSome(filtered) /\ The(filtered).hasRelevantChanges = "false"
    /\ IsSome(prInfo) /\ The(prInfo).files = <<>>
    /\ artifactKind = "noUpdates" /\ exitCode = 0

\* the names of the credentials that are missing from the environment
MissingNames ==
    {n \in {"DOCSBOT_API_KEY", "DOCSBOT_TEAM_ID", "DOCSBOT_BOT_ID"} :
        env[n] \in {Undefined, ""}}

\* the console line that lists a name
ListedAs(n) ==
    CASE n = "DOCSBOT_API_KEY" -> "  - DOCSBOT_API_KEY"
      [] n = "DOCSBOT_TEAM_ID" -> "  - DOCSBOT_TEAM_ID"
      [] OTHER -> "  - DOCSBOT_BOT_ID"

\* C5: with a credential missing the run lists exactly the missing names and
\* exits with code 1 before any external call: nothing is read, run, queried,
\* started or written.
C5_MissingCredentials ==
    (workflow = "docs" /\ MissingNames # {} /\ pc # "start") =>
        /\ pc = "done" /\ exitCode = 1
        /\ calls = <<>>
        /\ session = "none"
        /\ artifact # "fresh"
        /\ Len(out) = 1 + Cardinality(MissingNames)
        /\ {out[i].msg : i \in 2..Len(out)} = {ListedAs(n) : n \in MissingNames}
        /\ \A i \in 1..Len(out) : out[i].stream = "error"

\* C5's case: two of the three credentials are missing and the run has ended
C5_Witness ==
    /\ workflow = "docs" /\ pc = "done"
    /\ MissingNames = {"DOCSBOT_TEAM_ID", "DOCSBOT_BOT_ID"}
    /\ exitCode = 1

\* mock mode is off
MockOff == env.PLAYMAKER_MOCK \in {Undefined, ""}

\* the change-tracking variable is absent, or the payload read has no pull_request
NotApplicable ==
    \/ env.GITHUB_EVENT_PATH \in {Undefined, ""}
    \/ (event # <<>> /\ event[1].pull_request = <<>>)

\* the run made no classification request, no knowledge query, started no
\* session and wrote no artifact
NothingStarted ==
    /\ \A i \in 1..Len(calls) :
          calls[i] \notin {"anthropic messages.create", "fetch api.docsbot.ai", "query"}
    /\ session = "none"
    /\ artifact # "fresh"

\* C6 as stated: with mock mode off and no change-tracking variable or no
\* pull_request in the payload, docs-check and plan exit with code 0, produce
\* no artifact and start nothing.
C6_Original ==
    (workflow \in {"docs", "plan"} /\ MockOff /\ NotApplicable /\ pc = "done") =>
        exitCode = 0 /\ NothingStarted

\* C6 as amended: the same, for plan and for a docs-check run whose three
\* credentials are present (docs-check validates the credentials first).
C6_NotApplicableExit ==
    (/\ workflow \in {"docs", "plan"} /\ MockOff /\ NotApplicable
     /\ workflow = "docs" => MissingNames = {}) =>
        /\ NothingStarted
        /\ pc \in {"start", "prInfo", "getPRInfo", "gotPRInfo", "haveSummary", "done"}
        /\ pc = "done" => exitCode = 0

\* C6's case: a run has read a payload without pull_request and has ended
C6_Witness ==
    /\ workflow \in {"docs", "plan"} /\ MockOff /\ pc = "done"
    /\ event # <<>> /\ event[1].pull_request = <<>>
    /\ exitCode = 0 /\ calls = <<"readFileSync GITHUB_EVENT_PATH">>

\* C7: a run whose session was stopped by a budget-exceeded event and in which
\* no artifact was produced exits with code 1, in every workflow.
C7_BudgetNoArtifactExit1 ==
    (pc = "done" /\ session = "BudgetExceeded" /\ artifact # "fresh") => exitCode = 1

\* the run reported its artifact as created
ReportedCreated ==
    \E i \in 1..Len(out) :
        out[i].msg \in {"Test plan created in specs/ directory",
                        "Test generated in tests/ directory",
                        "Documentation report created: docs-report.md"}

\* C8: a run whose session failed ends with a non-zero exit code and does not
\* report the artifact as created, in every workflow.
C8_FailedIsAnError ==
    (pc = "done" /\ session = "Failed") => (exitCode # 0 /\ ~ReportedCreated)

\* C9: a non-2xx response of the knowledge service ends the run with code 1 and
\* the cause with its HTTP status on the console; no session is started and no
\* report is written.
C9_ServiceErrorIsFatal ==
    (workflow = "docs" /\ response # <<>>
     /\ ~(response[1].status \in 200..299)) =>
        /\ pc = "done" /\ exitCode = 1
        /\ \E i \in 1..Len(out) :
              /\ out[i].stream = "error" /\ out[i].msg = "DocsBot API error"
              /\ out[i].a = response[1].status
        /\ \A i \in 1..Len(calls) : calls[i] # "query"
        /\ session = "none"
        /\ artifact # "fresh"

\* C9's case: the knowledge service answered 404
C9_Witness ==
    /\ workflow = "docs" /\ pc = "done"
    /\ response # <<>> /\ response[1].status = 404
    /\ exitCode = 1

\* C10: once the stream of a docs-check session has ended, by completion or by
\* a budget stop, the run exits with code 1 if and only if the report does not
\* exist, and either way it has reported the metered total and the step count.
C10_ReportVerified ==
    (workflow = "docs" /\ pc = "done" /\ session \in {"Completed", "BudgetExceeded"}) =>
        /\ exitCode = 1 <=> artifact = "absent"
        /\ exitCode \in {0, 1}
        /\ \E i \in 1..Len(out) :
              /\ out[i].msg = "Total cost"
              /\ out[i].a = totalCost
              /\ out[i].b = Cardinality(processedMessageIds)

\* C10's case: a budget stop with metered cost and no report on disk
C10_Witness ==
    /\ workflow = "docs" /\ pc = "done" /\ session = "BudgetExceeded"
    /\ artifact = "absent" /\ exitCode = 1 /\ totalCost > 0

\* the other case of C10: the stream completed and the agent wrote the report
C10_WitnessCreated ==
    /\ workflow = "docs" /\ pc = "done" /\ session = "Completed"
    /\ artifact = "fresh" /\ artifactKind = "agent" /\ exitCode = 0

\* mock mode is enabled
MockOn == env.PLAYMAKER_MOCK \notin {Undefined, ""}

\* the calls that leave the process: payload read, git commands, classification
\* request, knowledge query, agent run
ExternalCalls ==
    {"readFileSync GITHUB_EVENT_PATH", "git diff", "git diff --numstat",
     "anthropic messages.create", "fetch api.docsbot.ai", "query"}

\* the infrastructure paths among the file names the runs meet
InfrastructurePaths == {".github/workflows/docs-check.yml"}

\* every file of the ChangeSet is an infrastructure path
AllInfrastructure(info) ==
    \A i \in 1..Len(info.files) : info.files[i].filename \in InfrastructurePaths

\* C11: with mock mode enabled a docs-check run performs no external call
\* (no payload read, no git command, no classification request, no knowledge
\* query, no agent run), and when it has ended and the files of the fixture
\* ChangeSet are all infrastructure paths it has written the no-updates report.
C11_MockMakesNoExternalCall ==
    (workflow = "docs" /\ MockOn) =>
        /\ \A i \in 1..Len(calls) : calls[i] \notin ExternalCalls
        /\ session = "none"
        /\ (pc = "done" /\ MissingNames = {} /\ prInfo # <<>>
            /\ AllInfrastructure(prInfo[1])) =>
              (artifact = "fresh" /\ artifactKind = "noUpdates")

\* the bytes one code unit of the character takes in UTF-8
Utf8Bytes(ch) == IF ch = "a" THEN 1 ELSE 2

RECURSIVE ByteSize(_)
\* the size of a text in bytes
ByteSize(text) ==
    IF text = <<>> THEN 0
    ELSE Head(text).n * Utf8Bytes(Head(text).ch) + ByteSize(Tail(text))

\* p is a prefix of t: the runs of p are those of t, the last one possibly shorter
IsPrefixOf(p, t) ==
    \/ p = <<>>
    \/ /\ Len(p) <= Len(t)
       /\ \A i \in 1..(Len(p) - 1) : p[i] = t[i]
       /\ p[Len(p)].ch = t[Len(p)].ch
       /\ p[Len(p)].n <= t[Len(p)].n

\* C12: the diff field of the ChangeSet that getPRInfo returns is a prefix of
\* the raw diff, its size is at most the cap of 50,000 bytes, multi-byte
\* characters included, and a diff no longer than the cap is returned unchanged.
C12_DiffWithinByteCap ==
    [][(pc = "return" /\ pc' = "gotPRInfo") =>
          /\ IsPrefixOf(prInfo'[1].diff, diff)
          /\ ByteSize(prInfo'[1].diff) <= DiffCap
          /\ ByteSize(diff) <= DiffCap => prInfo'[1].diff = diff]_vars

DecimalDigits == <<"0", "1", "2", "3", "4", "5", "6", "7", "8", "9">>

\* the field is a number: decimal digits and nothing else
IsNumber(field) ==
    /\ field # <<>>
    /\ \A i \in 1..Len(field) : \E d \in 1..10 : DecimalDigits[d] = field[i]

RECURSIVE NumericValue(_)
\* the numeric value of a field that is a number
NumericValue(field) ==
    IF field = <<>> THEN 0
    ELSE LET last == field[Len(field)]
             d == CHOOSE k \in 1..10 : DecimalDigits[k] = last
         IN  NumericValue(SubSeq(field, 1, Len(field) - 1)) * 10 + (d - 1)

\* the count a field stands for: its numeric value, 0 when it is not a number
CountOf(field) == IF IsNumber(field) THEN NumericValue(field) ELSE 0

\* C13: for the lines added<TAB>deleted<TAB>path of the statistics output,
\* getPRInfo yields one FileDelta per non-empty line, in the order of the lines,
\* with that path, kind "modified", and for added and deleted the numeric value
\* of the field, 0 when the field is not a number; every count is a
\* non-negative integer.
C13_NumstatParsed ==
    [][(pc = "return" /\ pc' = "gotPRInfo" /\ numstat # <<>>) =>
          LET lines == SelectSeq(numstat[1], LAMBDA l : l.filename # "")
              files == prInfo'[1].files
          IN  /\ Len(files) = Len(lines)
              /\ \A i \in 1..Len(lines) :
                    /\ files[i].filename = lines[i].filename
                    /\ files[i].status = "modified"
                    /\ files[i].additions = CountOf(lines[i].additions)
                    /\ files[i].deletions = CountOf(lines[i].deletions)
                    /\ files[i].additions \in Nat /\ files[i].deletions \in Nat]_vars

\* C13's case: getPRInfo has returned the files of a statistics output with a
\* text file (12 added, 4 deleted) and then a binary file ("-" for both counts)
C13_Witness ==
    /\ pc = "gotPRInfo" /\ prInfo # <<>>
    /\ Len(prInfo[1].files) = 2
    /\ prInfo[1].files[1].filename = "src/app.ts"
    /\ prInfo[1].files[1].additions = 12 /\ prInfo[1].files[1].deletions = 4
    /\ prInfo[1].files[2].filename = "logo.png"
    /\ prInfo[1].files[2].additions = 0 /\ prInfo[1].files[2].deletions = 0

\* the run reported that the diff call failed / that the statistics call failed
DiffCallFailed ==
    \E i \in 1..Len(out) : out[i].msg = "Could not get diff via git, continuing without it."
StatsCallFailed ==
    \E i \in 1..Len(out) :
        out[i].msg = "Could not get file stats via git, continuing without them."

RECURSIVE CodeUnits(_)
\* the length of a text
CodeUnits(text) == IF text = <<>> THEN 0 ELSE Head(text).n + CodeUnits(Tail(text))

\* C14: whichever of the two git calls fail, getPRInfo does not abort on them
\* and returns a ChangeSet with the payload's number, title and body; a failed
\* diff call gives an empty diff, a failed statistics call an empty file list,
\* and each field is what its own call gives (the diff cut at the cap, one file
\* per statistics line) whatever happened to the other call.
C14_GitCallsDegrade ==
    /\ [](pc = "rejected" /\ calls # <<>> =>
            calls[Len(calls)] \notin {"git diff", "git diff --numstat"})
    /\ [][(pc = "return" /\ pc' = "gotPRInfo") =>
            LET info == prInfo'[1]
                pr == event[1].pull_request[1]
            IN  /\ info.number = pr.number /\ info.title = pr.title
                /\ info.body = pr.body
                /\ DiffCallFailed => info.diff = <<>>
                /\ StatsCallFailed => info.files = <<>>
                /\ ~DiffCallFailed =>
                      /\ IsPrefixOf(info.diff, diff)
                      /\ CodeUnits(info.diff) =
                            IF CodeUnits(diff) <= DiffCap THEN CodeUnits(diff)
                            ELSE DiffCap
                /\ ~StatsCallFailed =>
                      Len(info.files) =
                          Len(SelectSeq(numstat[1], LAMBDA l : l.filename # ""))]_vars

\* C14's case: the statistics call failed, the diff call did not, and getPRInfo
\* has returned a ChangeSet with the diff and no files
C14_Witness ==
    /\ pc = "gotPRInfo" /\ prInfo # <<>>
    /\ StatsCallFailed /\ ~DiffCallFailed
    /\ prInfo[1].diff # <<>> /\ prInfo[1].files = <<>>
    /\ prInfo[1].number = 42

\* the other mixed case of C14: the diff call failed and the statistics call did not
C14_WitnessDiffFailed ==
    /\ pc = "gotPRInfo" /\ prInfo # <<>>
    /\ DiffCallFailed /\ ~StatsCallFailed
    /\ prInfo[1].diff = <<>> /\ prInfo[1].files # <<>>

\* C15: in the generate loop the running total follows the CostMeter: it is, at
\* every point of every stream, the sum over the distinct step identifiers that
\* carried usage data of the rate-table cost computed once per identifier, so
\* that only usage events change it and text, tool, system and session-end
\* events leave it as it was.
C15_GenerateMetersUsage ==
    (workflow = "generate" /\ session # "none") =>
        totalCost = SumOnce(consumed, UsageIds(consumed))

\* the positions of the budget-exceeded message on the console
BudgetMessages == {i \in 1..Len(out) : out[i].msg = "Budget limit exceeded"}

\* C16: a session goes from not started to Streaming and from Streaming to
\* exactly one of Completed, BudgetExceeded and Failed, which it never leaves;
\* and a run that ended on a budget stop has not reported its artifact as
\* created, has printed the budget-exceeded message exactly once, and has
\* reported the cost metered before the stop.
C16_BudgetIsDedicatedCondition ==
    /\ [][session' # session =>
            \/ session = "none" /\ session' = "Streaming"
            \/ session = "Streaming"
               /\ session' \in {"Completed", "BudgetExceeded", "Failed"}]_vars
    /\ [](pc = "done" /\ session = "BudgetExceeded" =>
            /\ ~ReportedCreated
            /\ Cardinality(BudgetMessages) = 1
            /\ ReportedTotals = {Metered(consumed)})

\* the stage of docs-check a call belongs to: 1 change-set extraction,
\* 2 classification request, 3 knowledge query, 4 AgentSession
StageOf(call) ==
    CASE call = "anthropic messages.create" -> 2
      [] call = "fetch api.docsbot.ai" -> 3
      [] call = "query" -> 4
      [] OTHER -> 1

\* how many times the call was made
TimesCalled(call) == Cardinality({i \in 1..Len(calls) : calls[i] = call})

\* the step makes the call
Makes(call) == calls' = Append(calls, call)

\* C17: in a docs-check run the calls come in the order of the stages
\* (extraction, classification request, knowledge query, session start), each
\* call at most once; the classification request is made only with the
\* ChangeSet returned, the knowledge query only with the verdict returned, the
\* session started only with the knowledge answer returned; and no run of any
\* workflow starts more than one session.
C17_StagesInOrderOnce ==
    /\ [](workflow = "docs" =>
            /\ \A i \in 1..Len(calls) : \A j \in i..Len(calls) :
                  StageOf(calls[i]) <= StageOf(calls[j])
            /\ \A i \in 1..Len(calls) : TimesCalled(calls[i]) = 1)
    /\ [](TimesCalled("query") <= 1)
    /\ [][workflow = "docs" =>
            /\ Makes("anthropic messages.create") => prInfo # <<>>
            /\ Makes("fetch api.docsbot.ai") => filtered # <<>>
            /\ Makes("query") => docsBotResponse # <<>>]_vars

\* C17's case: a docs-check run on a pull request went through all four stages
C17_Witness ==
    /\ workflow = "docs" /\ pc = "done" /\ session = "Completed"
    /\ calls = <<"readFileSync GITHUB_EVENT_PATH", "git diff", "git diff --numstat",
                 "anthropic messages.create", "fetch api.docsbot.ai", "query">>

\* the calls of the change-set extraction
ExtractionCalls == {"readFileSync GITHUB_EVENT_PATH", "git diff", "git diff --numstat"}

\* C18: in a plan run the persona initialisation comes before the change-set
\* extraction and before the session: the setup command is never run after a
\* call of the extraction or after the session was started, a session is
\* started only with the planner persona in place, and the setup command is run
\* only when the planner persona file is absent, at most once.
C18_PersonaInitFirst ==
    /\ [](workflow = "plan" =>
            /\ \A j \in 1..Len(calls) : calls[j] = "npx playwright init-agents" =>
                  \A i \in 1..(j - 1) : calls[i] \notin ExtractionCalls \cup {"query"}
            /\ session # "none" => "playwright-test-planner" \in agentsFiles
            /\ TimesCalled("npx playwright init-agents") <= 1)
    /\ [][(workflow = "plan" /\ Makes("npx playwright init-agents")) =>
            "playwright-test-planner" \notin agentsFiles]_vars

\* the plan files of the specs/ directory: the markdown files other than the README
PlanFilesOf(dir) ==
    IF dir = <<>> THEN <<>>
    ELSE SelectSeq(dir[1], LAMBDA f : f.ext = ".md" /\ f.stem # "README")

\* C19: a generate run with no plan file, or no plan directory, exits with code
\* 0 without running the setup command or starting a session; a run that ended
\* with the generator persona still missing after the setup command was run has
\* exit code 1 and started no session; and a session is started only with the
\* generator persona in place and a prompt that embeds the content of one plan
\* file of the directory.
C19_GenerateNeedsPlanAndPersona ==
    /\ [](workflow = "generate" /\ PlanFilesOf(planFiles) = <<>> =>
            /\ calls = <<>> /\ session = "none"
            /\ pc \in {"start", "done"}
            /\ pc = "done" => exitCode = 0)
    /\ [](workflow = "generate" /\ pc = "done"
          /\ TimesCalled("npx playwright init-agents") > 0
          /\ "playwright-test-generator" \notin agentsFiles =>
            exitCode = 1 /\ session = "none")
    /\ [][(workflow = "generate" /\ session = "none" /\ session' = "Streaming") =>
            /\ "playwright-test-generator" \in agentsFiles
            /\ testPlan # <<>>
            /\ \E i \in 1..Len(PlanFilesOf(planFiles)) :
                  PlanFilesOf(planFiles)[i].content = testPlan[1]]_vars

\* opening minus closing braces among reply[i..k]
BraceDepth(reply, i, k) ==
    Cardinality({m \in i..k : reply[m] = "{"}) - Cardinality({m \in i..k : reply[m] = "}"})

\* reply[i..j] is a balanced object: it opens at i and first closes at j
BalancedAt(reply, i, j) ==
    /\ reply[i] = "{" /\ reply[j] = "}"
    /\ BraceDepth(reply, i, j) = 0
    /\ \A k \in i..(j - 1) : BraceDepth(reply, i, k) > 0

\* the positions where a balanced object starts
BalancedStarts(reply) ==
    {i \in 1..Len(reply) : \E j \in i..Len(reply) : BalancedAt(reply, i, j)}

\* the first balanced object of a reply that holds one
FirstBalanced(reply) ==
    LET i == CHOOSE x \in BalancedStarts(reply) : \A y \in BalancedStarts(reply) : x <= y
        j == CHOOSE y \in i..Len(reply) : BalancedAt(reply, i, y)
    IN  SubSeq(reply, i, j)

\* the object is a valid verdict: members only, one of them the relevance, a boolean
IsVerdictObject(obj) ==
    /\ \A k \in 2..(Len(obj) - 1) : obj[k] \in {"T", "F", "S"}
    /\ Cardinality({k \in 2..(Len(obj) - 1) : obj[k] \in {"T", "F"}}) = 1

\* C20: for a reply whose first balanced JSON object is a valid verdict,
\* whatever prose, code fence, braces or further objects surround it,
\* filterRelevantChanges returns the verdict of that object.
C20_FirstBalancedObjectWins ==
    (/\ workflow = "docs" /\ pc = "filtered"
     /\ BalancedStarts(responseText[1]) # {}
     /\ IsVerdictObject(FirstBalanced(responseText[1]))) =>
        LET obj == FirstBalanced(responseText[1])
        IN  /\ filtered[1].hasRelevantChanges =
                  IF \E k \in 1..Len(obj) : obj[k] = "T" THEN "true" ELSE "false"
            /\ filtered[1].reason # FallbackReason

(***************************************************************************)
(* C21: the ceilings of a session.                                         *)
(***************************************************************************)
RECURSIVE Pow10(_)
Pow10(n) == IF n = 0 THEN 1 ELSE 10 * Pow10(n - 1)

\* the text is a decimal numeral: digits, or digits "." digits
IsDecimal(chars) ==
    \/ IsNumber(chars)
    \/ \E k \in 1..Len(chars) :
          /\ chars[k] = "."
          /\ IsNumber(SubSeq(chars, 1, k - 1))
          /\ IsNumber(SubSeq(chars, k + 1, Len(chars)))

\* the amount a decimal numeral denotes, in units of 1e-7 dollars
DecimalAmount(chars) ==
    IF IsNumber(chars) THEN NumericValue(chars) * Dollar
    ELSE LET k == CHOOSE x \in 1..Len(chars) : chars[x] = "."
             decimals == SubSeq(chars, k + 1, Len(chars))
         IN  NumericValue(SubSeq(chars, 1, k - 1)) * Dollar
               + (NumericValue(decimals) * Dollar) \div Pow10(Len(decimals))

\* a session has been started
SessionStarted == IsSome(options)

\* C21: every session that is started, in whichever variant of a workflow,
\* has a finite turn ceiling and a spending ceiling that is a number: the
\* amount of PLAYMAKER_MAX_BUDGET when it is set (to a decimal numeral), one
\* dollar when it is not set.
C21_EverySessionHasCeiling ==
    SessionStarted =>
        LET override == env.PLAYMAKER_MAX_BUDGET
            ceiling == The(options).maxBudgetUsd
        IN  /\ The(options).maxTurns \in Nat
            /\ ceiling.kind = "number"
            /\ ~IsSome(override) => ceiling.value = Dollar
            /\ (IsSome(override) /\ IsDecimal(The(override))) =>
                   ceiling.value = DecimalAmount(The(override))

\* the same for the current variants alone
C21_CurrentVariants ==
    workflow \notin TargetUrlVariants => C21_EverySessionHasCeiling

\* the same for the environments whose override is unset or a decimal numeral
C21_NumeralOverride ==
    (env.PLAYMAKER_MAX_BUDGET \in {None, Some(<<"2", ".", "5">>)}
       /\ workflow \notin TargetUrlVariants) => C21_EverySessionHasCeiling

\* a session started under an override that is a decimal numeral
C21_Reached ==
    SessionStarted /\ env.PLAYMAKER_MAX_BUDGET = Some(<<"2", ".", "5">>)

(***************************************************************************)
(* C22: the consuming loops of plan and generate.                          *)
(***************************************************************************)
\* the runs of plan and generate that reach their loop by the shortest way: plan
\* in mock mode, no budget override, no report left by an earlier run
LoopInit ==
    /\ Init
    /\ workflow \in {"plan", "generate"}
    /\ env.PLAYMAKER_MAX_BUDGET = None
    /\ workflow = "plan" => env.PLAYMAKER_MOCK = "set" /\ env.GITHUB_EVENT_PATH = Undefined
    /\ artifact = "absent"

\* the steps of those runs
LoopNext ==
    \/ GetChangeSummary
    \/ PlanCheckSummary
    \/ PlanEnsureAgents
    \/ PlanQuery
    \/ PlanLoopEvent
    \/ PlanReport
    \/ GetTestPlan
    \/ GenerateEnsureAgents
    \/ GenerateQuery
    \/ GenerateLoopEvent
    \/ GenerateReport
    \/ StreamEnd
    \/ StreamThrows
    \/ CatchConsoleError
    \/ AgentWritesArtifact

\* the pipeline keeps running: an enabled step is eventually taken (the stream
\* answers each request for the next event with an event, its end or a failure,
\* and node runs the continuation)
LoopSpec == LoopInit /\ [][LoopNext]_vars /\ WF_vars(LoopNext)

\* what the loop shows for one event: the agent invocation of a Task block, the
\* first text of an assistant event, the budget message of a budget event
ShownFor(message) ==
    (IF message.type = "assistant" /\ message.hasMessage /\ message.task # <<>>
     THEN <<Log("Invoking agent")>>
          \o (IF message.task[1] = "playwright-test-planner"
              THEN <<Err("WARNING: Using planner agent instead of generator")>>
              ELSE <<>>)
     ELSE <<>>)
    \o (IF message.type = "assistant" /\ message.hasMessage /\ message.text # <<>>
        THEN <<Log(message.text[1])>> ELSE <<>>)
    \o (IF BudgetEvent(message) THEN <<Err("Budget limit exceeded")>> ELSE <<>>)

RECURSIVE Shown(_)
\* what the loop shows for the events h, each once and in their order
Shown(h) == IF h = <<>> THEN <<>> ELSE ShownFor(Head(h)) \o Shown(Tail(h))

\* the line is one the loop prints
IsLoopLine(line) ==
    \E message \in PlanEvents \cup GenerateEvents :
        \E i \in 1..Len(ShownFor(message)) : ShownFor(message)[i] = line

\* how many times the final total has been reported
TotalReports == Cardinality({i \in 1..Len(out) : out[i].msg = "Total cost"})

\* the loop has been left
LoopEnded == pc \in {"afterLoop", "rejected", "done"}

\* the state of a plan or generate run whose session was started: every event
\* taken was processed once and in order, the loop is left at the end of the
\* stream, at the first budget event or at a failure of the stream, and the
\* total is reported once, after the loop, unless the stream failed
LoopState ==
    (workflow \in {"plan", "generate"} /\ SessionStarted) =>
        /\ SelectSeq(out, IsLoopLine) = Shown(consumed)
        /\ totalCost = Metered(consumed)
        /\ \A i \in 1..(Len(consumed) - 1) : ~BudgetEvent(consumed[i])
        /\ (consumed # <<>> /\ BudgetEvent(consumed[Len(consumed)])) => LoopEnded
        /\ LoopEnded <=> session \in {"Completed", "BudgetExceeded", "Failed"}
        /\ session = "BudgetExceeded" <=>
              (consumed # <<>> /\ BudgetEvent(consumed[Len(consumed)]))
        /\ pc # "done" => TotalReports = 0
        /\ pc = "done" =>
              /\ TotalReports = IF session = "Failed" THEN 0 ELSE 1
              /\ session # "Failed" =>
                    /\ out[Len(out)].msg = "Total cost"
                    /\ out[Len(out)].a = Metered(consumed)

\* a step of the loop takes the next event and no other, and what was taken or
\* shown is never taken back
LoopStep ==
    (workflow \in {"plan", "generate"} /\ SessionStarted) =>
        /\ consumed' # consumed =>
              /\ pc = "loop"
              /\ \E message \in PlanEvents \cup GenerateEvents :
                    consumed' = Append(consumed, message)
        /\ Len(out) <= Len(out') /\ SubSeq(out', 1, Len(out)) = out

\* C22 (as the code has it): on every finite stream the loops of plan and
\* generate end, at the end of the stream, at the first budget-exceeded event
\* or at a failure of the stream; each event is processed once, in order; the
\* total is reported never before the loop has ended, at most once, and exactly
\* once unless the stream failed.
C22_LoopsTerminate ==
    /\ []LoopState
    /\ [][LoopStep]_vars
    /\ (workflow \in {"plan", "generate"} /\ pc = "loop") ~> (pc = "done")

\* C22 as stated: the loop ends at the end of the stream or at a budget event,
\* and the total is reported exactly once.
C22_Original ==
    (workflow \in {"plan", "generate"} /\ SessionStarted /\ pc = "done") =>
        /\ session \in {"Completed", "BudgetExceeded"}
        /\ TotalReports = 1

\* C22's case: a run that took a full stream, showed something on the way and
\* reported its total after the stream ended
C22_Witness ==
    /\ workflow \in {"plan", "generate"} /\ pc = "done"
    /\ Len(consumed) = MaxEvents
    /\ session = "Completed"
    /\ Len(Shown(consumed)) >= 2
    /\ TotalReports = 1

(***************************************************************************)
(* C23: the report of a docs-check run.                                    *)
(***************************************************************************)
\* C23: a docs-check run that started a session and exits with code 0 wrote
\* the report during that run; a report left by an earlier run does not make
\* the run succeed.
C23_ReportIsOfThisRun ==
    (workflow = "docs" /\ SessionStarted /\ pc = "done" /\ exitCode = 0) =>
        artifact = "fresh"

\* the same for the runs that found no report when they started
C23_NoEarlierReport ==
    (workflow = "docs" /\ SessionStarted /\ pc = "done" /\ exitCode = 0
       /\ artifact # "stale") => artifact = "fresh"

(***************************************************************************)
(* C24: the meter of the plan loop.                                        *)
(***************************************************************************)
\* the step counts a run reported with its total
ReportedSteps == {out[i].b : i \in {j \in 1..Len(out) : out[j].msg = "Total cost"}}

\* the assistant event lacks an identifier or lacks usage data
Unmetered(message) ==
    /\ message.type = "assistant" /\ message.hasMessage
    /\ message.id \in {"", Undefined, Null} \/ message.usage = <<>>

\* the assistant event repeats an identifier that was seen before
Repeated(message, seen) ==
    /\ message.type = "assistant" /\ message.hasMessage
    /\ message.id \in seen

\* the event taken by a step of the loop, when the step took one
Taken == consumed'[Len(consumed')]

\* what a step of the plan loop does to the meter and the display
MeterStep ==
    (workflow = "plan" /\ SessionStarted) =>
        /\ processedMessageIds \subseteq processedMessageIds'
        /\ totalCost' >= totalCost
        /\ Len(consumed') > Len(consumed) =>
              /\ (Unmetered(Taken) \/ Repeated(Taken, processedMessageIds)) =>
                    /\ totalCost' = totalCost
                    /\ processedMessageIds' = processedMessageIds
              /\ (Taken.type = "assistant" /\ Taken.hasMessage /\ Taken.text # <<>>) =>
                    /\ Len(out') = Len(out) + 1
                    /\ out'[Len(out')] = Log(Taken.text[1])

\* C24: in the plan loop the step count is the number of identifiers in the
\* seen set, the seen set and the running total never decrease, an assistant
\* event without an identifier or without usage data changes neither, and the
\* text of an assistant event is displayed whether or not the event is metered
\* (a repeated identifier included).
C24_MeterInvariants ==
    /\ [](workflow = "plan" =>
            /\ Cardinality(processedMessageIds) = Cardinality(UsageIds(consumed))
            /\ \A n \in ReportedSteps : n = Cardinality(processedMessageIds))
    /\ [][MeterStep]_vars

\* C24's case: a finished plan run that took an event without an identifier, an
\* event without usage data and a repeated identifier, each with its text, and
\* reported one step
C24_Witness ==
    /\ workflow = "plan" /\ pc = "done"
    /\ Len(consumed) = 3
    /\ consumed[1].id = "msg_1" /\ consumed[1].usage # <<>>
    /\ \E i \in 2..3 : consumed[i].id = "msg_1" /\ consumed[i].text # <<>>
    /\ \E i \in 2..3 : consumed[i].id = "" /\ consumed[i].text # <<>>
    /\ Len(SelectSeq(out, IsLoopLine)) = 3
    /\ ReportedSteps = {1}

(***************************************************************************)
(* C25: the entry shims.                                                   *)
(***************************************************************************)
\* the shim has terminated, by process.exit or by a signal
ShimTerminated == shim.state \in {"exited", "killed"}

\* the pipeline process has terminated
PipelineTerminated == child.state \in {"exited", "killed"}

\* the shim's exit is non-zero: a non-zero code, or death by a signal
ShimNonZero == shim.state = "killed" \/ (shim.state = "exited" /\ shim.code # 0)

\* C25: a shim that spawned its pipeline terminates only when the pipeline
\* process has terminated; its exit code is then the pipeline's exit code; and
\* when a signal terminated the pipeline process the shim's exit is non-zero
\* and no pipeline is left running.
C25_ShimFollowsPipeline ==
    (ShimTerminated /\ child.state # "none") =>
        /\ PipelineTerminated
        /\ child.state = "exited" =>
              shim.state = "exited" /\ shim.code = child.code[1]
        /\ child.state = "killed" => ShimNonZero

\* the part about the exit code alone: a shim that left through process.exit
\* after the pipeline exited by itself has the pipeline's exit code
C25_ExitCodeForwarded ==
    (shim.state = "exited" /\ child.state = "exited") =>
        /\ shim.code = child.code[1]
        /\ shim.code = exitCode

\* the part about an interrupt that reaches the pipeline process alone
C25_SignalGivesNonZero ==
    (shim.state = "exited" /\ child.state = "killed") => shim.code # 0

\* a shim that forwarded a non-zero exit code of its pipeline
C25_Reached ==
    shim.state = "exited" /\ child.state = "exited" /\ shim.code = 1

====
